---- MODULE Spec2Model ----
(***************************************************************************)
(* A model of the signing and submission engine of facho (DIAN electronic  *)
(* invoicing): the document tracker and its JSON tracking file, the        *)
(* submission client's send / poll state machine, the habilitacion batch   *)
(* pipeline that drives both, and the XAdES signer's insertion step.       *)
(*                                                                         *)
(* Python's None is the string "None"; True / False of an Optional[bool]   *)
(* are "True" / "False".  A document number f"{prefix}{consecutive}" is    *)
(* the pair <<prefix, consecutive>>.  Timestamps (created_at, updated_at), *)
(* nit, uuid, dates and totals are carried by the code but never read by   *)
(* an operation modelled here, and are left out of the records.            *)
(***************************************************************************)
EXTENDS Integers, Sequences, FiniteSets, TLC

None == "None"

(***************************************************************************)
(* Bounds of the model.                                                    *)
(***************************************************************************)
MaxReturned == 2
MaxDocs == 2
MaxRetriesArg == 3
MaxExtensions == 3

(***************************************************************************)
(* Program constants.                                                      *)
(***************************************************************************)
default_max_retries == 3
default_wait_seconds == 10
range_from == 990000000

(***************************************************************************)
(* Input domains.                                                          *)
(***************************************************************************)
Trackers == {"p1", "p2"}
Prefixes == {"SETP"}
StartConsecutives == {<<>>, <<1>>}
DocTypes == {"factura", "credito", "debito"}
ZipKeys == {"zk1"}
WaitSeconds == {0, 10}
PollOutcomes == {"True", "False", "None", "RequestException", "Exception"}
\* what _build_wssec_soap raises when the canonicalisation or the signature fails
SigningFailures == {"C14NError", "UnsupportedAlgorithm"}
SendOutcomes == ZipKeys \cup {"None", "RequestException", "Exception"} \cup SigningFailures
StepOutcomes == {"ok", "raise"}
Validity == {"None", "True", "False"}

VARIABLES
    file,        \* the tracking file shared by every tracker opened on its path
    data,        \* data[t]: the _data (TrackingData) of DocumentTracker object t
    returned,    \* returned[t]: the values get_next_consecutive returned to t's caller
    added,       \* added[t]: the numbers of the documents given to t's add_document
    pc,          \* position of the script: start, idle, sending, polling, aborted
    caller,      \* who started the current / last client call
    verify,      \* the verify argument of process_invoice / send_and_verify
    doc_number,  \* the number process_invoice allocated for the document in hand
    track_id,    \* the ZipKey verify_status_with_retry polls
    wait_seconds,
    max_retries,
    attempt,     \* the loop variable of verify_status_with_retry
    response,    \* the local variable response of verify_status_with_retry
    log,         \* what the current / last verify_status_with_retry did, in order
    outcome,     \* how the last verify_status_with_retry ended
    result,      \* the dictionary the last send_and_verify returned
    xml_element, \* the element the last sign() was given, as it was given
    invoice,     \* that element's tree after the call
    sign_raised, \* the exception the last sign() raised, None if it returned
    envelope,    \* the message the last _build_wssec_soap returned
    ident_call,  \* the last call of an identifier function: its name and arguments
    identifier,  \* the identifier that call returned
    xml_response,\* the response text the parser was last given
    parsed,      \* the response object the parser returned
    error_call,  \* the last call of create_dian_exception: its two arguments
    dian_exception, \* the exception object that call returned
    client_config,  \* the environment the last client was constructed or asked with
    client_endpoint,\* the endpoint that client talks to
    pending_docs,\* verify_pending_documents: positions of the records still to poll
    saving       \* saving[t]: the call of tracker t that is inside _save, if one is

trackerVars == <<file, data, returned, added>>
clientVars == <<pc, caller, verify, doc_number, track_id, wait_seconds, max_retries,
                attempt, response, log, outcome, result>>
signVars == <<xml_element, invoice, sign_raised, envelope>>
identVars == <<ident_call, identifier>>
parseVars == <<xml_response, parsed>>
utilVars == <<error_call, dian_exception, client_config, client_endpoint>>
verifyVars == <<pending_docs>>
saveVars == <<saving>>
scriptVars == <<verifyVars, saveVars>>
libVars == <<signVars, identVars, parseVars, utilVars, verifyVars, saveVars>>
vars == <<file, data, returned, added, pc, caller, verify, doc_number, track_id,
          wait_seconds, max_retries, attempt, response, log, outcome, result,
          xml_element, invoice, sign_raised, envelope, ident_call, identifier,
          xml_response, parsed, error_call, dian_exception, client_config,
          client_endpoint, pending_docs, saving>>

(***************************************************************************)
(* tracker.py: TrackingData, _load, _save                                  *)
(***************************************************************************)
TrackingData ==
    [facturas |-> <<>>, notas_credito |-> <<>>, notas_debito |-> <<>>,
     last_consecutive |-> 0, prefix |-> ""]

\* The file does not exist, holds a text json.load rejects, is empty (which
\* json.load rejects as well), or holds the dictionary a _save wrote.
NoFile == [kind |-> "absent", json |-> TrackingData]
InvalidFile == [kind |-> "invalid", json |-> TrackingData]
EmptyFile == [kind |-> "empty", json |-> TrackingData]

TrackedDocument(doc_type, number, zip_key, is_valid) ==
    [doc_type |-> doc_type, number |-> number, zip_key |-> zip_key,
     is_valid |-> is_valid]

_load(f) ==
    IF f.kind = "absent" THEN TrackingData
    ELSE IF f.kind \in {"invalid", "empty"} THEN TrackingData
    ELSE [facturas |-> f.json.facturas,
          notas_credito |-> f.json.notas_credito,
          notas_debito |-> f.json.notas_debito,
          last_consecutive |-> f.json.last_consecutive,
          prefix |-> f.json.prefix]

\* The file a _save leaves when no other process touches the file between
\* its open(file, "w") and its close: the dictionary of the tracker's data.
_save(d) ==
    [kind |-> "json",
     json |-> [facturas |-> d.facturas,
               notas_credito |-> d.notas_credito,
               notas_debito |-> d.notas_debito,
               last_consecutive |-> d.last_consecutive,
               prefix |-> d.prefix]]

\* _save in a process that shares the file with other processes.  Its
\* open(file, "w") creates or empties the file: EmptyFile.  json.dump and the
\* close then write the text from the start of the file f as the other
\* processes left it meanwhile.  On a file still empty the result is the
\* text.  On a file another process has written to since, the result is the
\* text when it is at least as long as what is there, and the text followed
\* by the tail of what is there, which json.load rejects, when it is shorter.
\* The length depends on fields that are not part of this data (nit, uuid,
\* total, status_description, the time stamps), so that either can happen.
written(f, d) ==
    IF f.kind = "empty" THEN {_save(d)} ELSE {_save(d), InvalidFile}

all_docs(d) == d.facturas \o d.notas_credito \o d.notas_debito

(***************************************************************************)
(* tracker.py: the operations of DocumentTracker, as effects on the        *)
(* tracker's own _data, the file and the values handed to the caller.      *)
(* set_config, get_next_consecutive, add_document, update_status and clear *)
(* are the whole call of a tracker whose process is the only one that uses *)
(* the file during the call: the file ends as _save(d).  For trackers in   *)
(* two processes the same calls are taken in two steps, *_enter and        *)
(* save_return below, between which the other process runs.               *)
(***************************************************************************)
DocumentTracker(t) ==
    /\ data' = [data EXCEPT ![t] = _load(file)]
    /\ UNCHANGED <<file, returned, added>>

\* The assignments of set_config on a TrackingData d.  start_consecutive is
\* an Optional[int]: <<>> for None, <<n>> for the integer n.
configured(d, prefix, start_consecutive) ==
    LET d1 == IF prefix # None THEN [d EXCEPT !.prefix = prefix] ELSE d
    IN  IF start_consecutive # <<>> /\ d1.last_consecutive = 0
        THEN [d1 EXCEPT !.last_consecutive = start_consecutive[1]]
        ELSE d1

set_config(t, prefix, start_consecutive) ==
    LET d == configured(data[t], prefix, start_consecutive)
    IN  /\ data' = [data EXCEPT ![t] = d]
        /\ file' = _save(d)
        /\ UNCHANGED <<returned, added>>

\* self._data.last_consecutive += 1
incremented(d) == [d EXCEPT !.last_consecutive = @ + 1]

get_next_consecutive(t) ==
    LET d == incremented(data[t])
    IN  /\ data' = [data EXCEPT ![t] = d]
        /\ file' = _save(d)
        /\ returned' = [returned EXCEPT ![t] = Append(@, d.last_consecutive)]
        /\ UNCHANGED added

get_next_document_number(t) == get_next_consecutive(t)

\* The number get_next_document_number hands to its caller: f"{prefix}{consecutive}".
prefixed_number(d) == <<d.prefix, d.last_consecutive>>

\* Mutant of add_document: the list is replaced by the new document.
add_document_replace(t, document) ==
    /\ document.doc_type \in DocTypes
    /\ LET d == IF document.doc_type = "factura"
                THEN [data[t] EXCEPT !.facturas = <<document>>]
                ELSE IF document.doc_type = "credito"
                THEN [data[t] EXCEPT !.notas_credito = <<document>>]
                ELSE [data[t] EXCEPT !.notas_debito = <<document>>]
       IN  /\ data' = [data EXCEPT ![t] = d]
           /\ file' = _save(d)
    /\ added' = [added EXCEPT ![t] = @ \cup {document.number}]
    /\ UNCHANGED returned

\* add_document raises ValueError, before any change, for an unsupported doc_type.
add_document(t, document) ==
    /\ document.doc_type \in DocTypes
    /\ LET d == IF document.doc_type = "factura"
                THEN [data[t] EXCEPT !.facturas = Append(@, document)]
                ELSE IF document.doc_type = "credito"
                THEN [data[t] EXCEPT !.notas_credito = Append(@, document)]
                ELSE [data[t] EXCEPT !.notas_debito = Append(@, document)]
       IN  /\ data' = [data EXCEPT ![t] = d]
           /\ file' = _save(d)
    /\ added' = [added EXCEPT ![t] = @ \cup {document.number}]
    /\ UNCHANGED returned

HasNumber(docs, number) == \E i \in 1..Len(docs) : docs[i].number = number

FirstIndex(docs, number) ==
    CHOOSE i \in 1..Len(docs) :
        /\ docs[i].number = number
        /\ \A j \in 1..(i - 1) : docs[j].number # number

\* The assignments update_status makes on the first record of all_docs whose
\* number matches: an argument left None keeps the field.
update_doc(doc, is_valid, zip_key) ==
    [doc EXCEPT !.is_valid = IF is_valid # None THEN is_valid ELSE @,
                !.zip_key = IF zip_key # None THEN zip_key ELSE @]

update_first(docs, number, is_valid, zip_key) ==
    [docs EXCEPT ![FirstIndex(docs, number)] = update_doc(@, is_valid, zip_key)]

\* update_status returns False, without saving, when no record has the number.
update_status_found(d, document_number) == HasNumber(all_docs(d), document_number)

\* The loop of update_status on the tracker's data: the first record of
\* facturas + notas_credito + notas_debito with the number is updated.
update_status_data(d0, document_number, is_valid, zip_key) ==
    IF HasNumber(d0.facturas, document_number)
    THEN [d0 EXCEPT !.facturas = update_first(@, document_number, is_valid, zip_key)]
    ELSE IF HasNumber(d0.notas_credito, document_number)
    THEN [d0 EXCEPT !.notas_credito = update_first(@, document_number, is_valid, zip_key)]
    ELSE IF HasNumber(d0.notas_debito, document_number)
    THEN [d0 EXCEPT !.notas_debito = update_first(@, document_number, is_valid, zip_key)]
    ELSE d0

update_status(t, document_number, is_valid, zip_key) ==
    /\ IF update_status_found(data[t], document_number)
       THEN LET d == update_status_data(data[t], document_number, is_valid, zip_key)
            IN  /\ data' = [data EXCEPT ![t] = d]
                /\ file' = _save(d)
       ELSE UNCHANGED <<data, file>>
    /\ UNCHANGED <<returned, added>>

\* TrackingData(prefix=self._data.prefix, nit=self._data.nit, last_consecutive=0)
cleared(d) == [TrackingData EXCEPT !.prefix = d.prefix, !.last_consecutive = 0]

clear(t) ==
    LET d == cleared(data[t])
    IN  /\ data' = [data EXCEPT ![t] = d]
        /\ file' = _save(d)
        /\ UNCHANGED <<returned, added>>

(***************************************************************************)
(* tracker.py: the same calls of a tracker whose process shares the file   *)
(* with another process.  A call runs up to and including the              *)
(* open(file, "w") of its _save in one step; json.dump, the close and the  *)
(* return are a second step.  saving[t] names the call t is in.            *)
(***************************************************************************)
NotSaving == "none"

_save_enter(t, call, d) ==
    /\ saving[t] = NotSaving
    /\ data' = [data EXCEPT ![t] = d]
    /\ file' = EmptyFile
    /\ saving' = [saving EXCEPT ![t] = call]
    /\ UNCHANGED <<returned, added>>

set_config_enter(t, prefix, start_consecutive) ==
    _save_enter(t, "set_config", configured(data[t], prefix, start_consecutive))

\* get_next_document_number is this call and, after its return, the f-string.
get_next_consecutive_enter(t) ==
    _save_enter(t, "get_next_consecutive", incremented(data[t]))

clear_enter(t) == _save_enter(t, "clear", cleared(data[t]))

\* The text is written and the call returns; get_next_consecutive returns
\* self._data.last_consecutive.
save_return(t) ==
    /\ saving[t] # NotSaving
    /\ file' \in written(file, data[t])
    /\ returned' = IF saving[t] = "get_next_consecutive"
                   THEN [returned EXCEPT ![t] = Append(@, data[t].last_consecutive)]
                   ELSE returned
    /\ saving' = [saving EXCEPT ![t] = NotSaving]
    /\ UNCHANGED <<data, added>>

\* The constructor of a tracker whose process is in no call.
DocumentTracker_open(t) ==
    /\ saving[t] = NotSaving
    /\ DocumentTracker(t)
    /\ UNCHANGED saving

InitSaving == saving = [t \in Trackers |-> NotSaving]

get_pending_documents(d) ==
    LET pending(doc) == doc.zip_key # None /\ doc.zip_key # "" /\ doc.is_valid = None
    IN  SelectSeq(all_docs(d), pending)

get_failed_documents(d) ==
    LET failed(doc) == doc.is_valid = "False"
    IN  SelectSeq(all_docs(d), failed)

get_valid_documents(d) ==
    LET valid(doc) == doc.is_valid = "True"
    IN  SelectSeq(all_docs(d), valid)

\* The counters of get_summary that are about the records.
get_summary(d) ==
    LET valid(doc) == doc.is_valid = "True"
        failed(doc) == doc.is_valid = "False"
        pending(doc) == doc.zip_key # None /\ doc.zip_key # "" /\ doc.is_valid = None
    IN  [total_documentos |-> Len(all_docs(d)),
         validados |-> Len(SelectSeq(all_docs(d), valid)),
         rechazados |-> Len(SelectSeq(all_docs(d), failed)),
         pendientes |-> Len(SelectSeq(all_docs(d), pending))]

(***************************************************************************)
(* examples/dian_habilitacion.py: verify_pending_documents.  The function   *)
(* takes the pending records once, then makes one blocking get_status_zip   *)
(* request per record and stores the answer with update_status, which saves *)
(* the file, before it makes the next request.  An answer is the is_valid   *)
(* of the response, or RequestException when the request fails, which       *)
(* leaves the loop and the function.  Each request has its own answer.      *)
(***************************************************************************)
RecordKeys == {"zk1", "zk2"}
Answers == Validity \cup {"RequestException"}

\* The positions in all_docs of the records get_pending_documents returns.
pending_positions(d) ==
    LET docs == all_docs(d)
        pending(i) ==
            docs[i].zip_key # None /\ docs[i].zip_key # "" /\ docs[i].is_valid = None
    IN  SelectSeq([i \in 1..Len(docs) |-> i], pending)

\* The call: the list of pending records is taken; the loop runs over it.
verify_pending_documents(t) ==
    /\ pending_docs = <<>>
    /\ pending_docs' = pending_positions(data[t])
    /\ UNCHANGED trackerVars

\* One pass of the loop: the request for the record in turn, and the
\* update_status with that record's number.
verify_pending_documents_loop(t, is_valid) ==
    /\ pending_docs # <<>>
    /\ LET doc == all_docs(data[t])[Head(pending_docs)]
       IN  IF is_valid = "RequestException"
           THEN /\ pending_docs' = <<>>
                /\ UNCHANGED trackerVars
           ELSE /\ update_status(t, doc.number, is_valid, None)
                /\ pending_docs' = Tail(pending_docs)

InitVerify == pending_docs = <<>>

(***************************************************************************)
(* dian_simple.py: verify_status_with_retry.                               *)
(*                                                                         *)
(* A poll (get_status_zip) ends in a response whose is_valid is True,      *)
(* False or None, in a requests.RequestException, or in an exception that  *)
(* is not a RequestException (raised while the envelope is built and       *)
(* signed).  log lists the polls by their outcome and every time.sleep     *)
(* as "sleep"; each sleep lasts wait_seconds.                              *)
(***************************************************************************)
NoResponse == [bound |-> FALSE, is_valid |-> None]
GetStatusZipResponse(is_valid) == [bound |-> TRUE, is_valid |-> is_valid]

NoOutcome == [kind |-> "none", is_valid |-> None, exc |-> None]
Return(resp) ==
    IF resp.bound THEN [kind |-> "return", is_valid |-> resp.is_valid, exc |-> None]
    ELSE [kind |-> "raise", is_valid |-> None, exc |-> "UnboundLocalError"]
Raise(exc) == [kind |-> "raise", is_valid |-> None, exc |-> exc]

IsPoll(e) == e # "sleep"
Polls(lg) == SelectSeq(lg, IsPoll)
Last(q) == q[Len(q)]

\* Before the loop: the initial wait, and the loop that range(max_retries)
\* never enters when max_retries <= 0.
verify_enter(wait, mr) ==
    [events |-> IF wait > 0 THEN <<"sleep">> ELSE <<>>,
     done |-> mr <= 0,
     outcome |-> IF mr <= 0 THEN Return(NoResponse) ELSE NoOutcome]

\* Mutants of poll_step: a verdict that does not end the loop; a timeout raised
\* when the last poll is Pending; a failure of the last poll that is swallowed;
\* a transport failure that is never retried.
poll_step_no_early_return(mr, att, resp, o) ==
    IF o \in {"True", "False", "None"}
    THEN IF att < mr - 1
         THEN [done |-> FALSE, attempt |-> att + 1,
               response |-> GetStatusZipResponse(o),
               events |-> <<o, "sleep">>, outcome |-> NoOutcome]
         ELSE [done |-> TRUE, attempt |-> att,
               response |-> GetStatusZipResponse(o),
               events |-> <<o>>, outcome |-> Return(GetStatusZipResponse(o))]
    ELSE IF o = "RequestException" /\ att < mr - 1
    THEN [done |-> FALSE, attempt |-> att + 1, response |-> resp,
          events |-> <<o, "sleep">>, outcome |-> NoOutcome]
    ELSE [done |-> TRUE, attempt |-> att, response |-> resp,
          events |-> <<o>>, outcome |-> Raise(o)]

poll_step_raise_when_pending(mr, att, resp, o) ==
    IF o \in {"True", "False"}
    THEN [done |-> TRUE, attempt |-> att, response |-> GetStatusZipResponse(o),
          events |-> <<o>>, outcome |-> Return(GetStatusZipResponse(o))]
    ELSE IF o \in {"None", "RequestException"} /\ att < mr - 1
    THEN [done |-> FALSE, attempt |-> att + 1,
          response |-> IF o = "None" THEN GetStatusZipResponse(None) ELSE resp,
          events |-> <<o, "sleep">>, outcome |-> NoOutcome]
    ELSE [done |-> TRUE, attempt |-> att,
          response |-> IF o = "None" THEN GetStatusZipResponse(None) ELSE resp,
          events |-> <<o>>,
          outcome |-> Raise(IF o = "None" THEN "TimeoutError" ELSE o)]

poll_step_swallow_last(mr, att, resp, o) ==
    IF o \in {"True", "False"}
    THEN [done |-> TRUE, attempt |-> att, response |-> GetStatusZipResponse(o),
          events |-> <<o>>, outcome |-> Return(GetStatusZipResponse(o))]
    ELSE IF o \in {"None", "RequestException"}
    THEN LET r == IF o = "None" THEN GetStatusZipResponse(None) ELSE resp
         IN  IF att < mr - 1
             THEN [done |-> FALSE, attempt |-> att + 1, response |-> r,
                   events |-> <<o, "sleep">>, outcome |-> NoOutcome]
             ELSE [done |-> TRUE, attempt |-> att, response |-> r,
                   events |-> <<o>>, outcome |-> Return(r)]
    ELSE [done |-> TRUE, attempt |-> att, response |-> resp,
          events |-> <<o>>, outcome |-> Raise("Exception")]

poll_step_no_retry(mr, att, resp, o) ==
    IF o \in {"True", "False"}
    THEN [done |-> TRUE, attempt |-> att, response |-> GetStatusZipResponse(o),
          events |-> <<o>>, outcome |-> Return(GetStatusZipResponse(o))]
    ELSE IF o = "None"
    THEN IF att < mr - 1
         THEN [done |-> FALSE, attempt |-> att + 1,
               response |-> GetStatusZipResponse(None),
               events |-> <<o, "sleep">>, outcome |-> NoOutcome]
         ELSE [done |-> TRUE, attempt |-> att,
               response |-> GetStatusZipResponse(None),
               events |-> <<o>>, outcome |-> Return(GetStatusZipResponse(None))]
    ELSE [done |-> TRUE, attempt |-> att, response |-> resp,
          events |-> <<o>>, outcome |-> Raise(o)]

\* One iteration of the loop, with attempt = att and the poll ending in o,
\* and the return after the loop when the iteration was the last one.
poll_step(mr, att, resp, o) ==
    IF o \in {"True", "False"}
    THEN [done |-> TRUE, attempt |-> att, response |-> GetStatusZipResponse(o),
          events |-> <<o>>, outcome |-> Return(GetStatusZipResponse(o))]
    ELSE IF o = "None"
    THEN IF att < mr - 1
         THEN [done |-> FALSE, attempt |-> att + 1,
               response |-> GetStatusZipResponse(None),
               events |-> <<o, "sleep">>, outcome |-> NoOutcome]
         ELSE [done |-> TRUE, attempt |-> att,
               response |-> GetStatusZipResponse(None),
               events |-> <<o>>, outcome |-> Return(GetStatusZipResponse(None))]
    ELSE IF o = "RequestException"
    THEN IF att < mr - 1
         THEN [done |-> FALSE, attempt |-> att + 1, response |-> resp,
               events |-> <<o, "sleep">>, outcome |-> NoOutcome]
         ELSE [done |-> TRUE, attempt |-> att, response |-> resp,
               events |-> <<o>>, outcome |-> Raise("RequestException")]
    ELSE [done |-> TRUE, attempt |-> att, response |-> resp,
          events |-> <<o>>, outcome |-> Raise("Exception")]

(***************************************************************************)
(* dian_simple.py: send_and_verify.  Its result dictionary, by the way    *)
(* the send and the verification ended; every exception is caught and      *)
(* becomes result['error'].                                                *)
(***************************************************************************)
NoResult == [zip_key |-> None, is_valid |-> None, error |-> None,
             status_response |-> FALSE]

\* The send ended in send_outcome and no verification followed.
send_result(send_outcome) ==
    IF send_outcome \in ZipKeys
    THEN [NoResult EXCEPT !.zip_key = send_outcome]
    ELSE IF send_outcome = "None" THEN NoResult
    ELSE [NoResult EXCEPT !.error = send_outcome]

\* Mutant of send_and_verify_result: a failed verification reported as a
\* rejection.
send_and_verify_result_failed(zk, vo) ==
    IF vo.kind = "return"
    THEN [zip_key |-> zk, is_valid |-> vo.is_valid, error |-> None,
          status_response |-> TRUE]
    ELSE [zip_key |-> zk, is_valid |-> "False", error |-> vo.exc,
          status_response |-> FALSE]

\* The send returned the ZipKey zk and verify_status_with_retry ended in vo.
send_and_verify_result(zk, vo) ==
    IF vo.kind = "return"
    THEN [zip_key |-> zk, is_valid |-> vo.is_valid, error |-> None,
          status_response |-> TRUE]
    ELSE [zip_key |-> zk, is_valid |-> None, error |-> vo.exc,
          status_response |-> FALSE]

(***************************************************************************)
(* examples/dian_habilitacion.py: main, run_batch_mode, process_invoice.   *)
(* The pipeline uses the tracker p1.                                       *)
(***************************************************************************)
Pipeline == "p1"

\* The TrackedDocument process_invoice builds from the result, and its
\* add_document.
\* The functions of the script that send one document with send_and_verify.
ProcessFunctions == {"process_invoice", "process_credit_note", "process_debit_note"}

\* The doc_type each process_* function gives the record it tracks.
doc_type_of(c) ==
    CASE c = "process_credit_note" -> "credito"
      [] c = "process_debit_note" -> "debito"
      [] OTHER -> "factura"

record_result(r) ==
    add_document(Pipeline,
                 TrackedDocument(doc_type_of(caller), doc_number, r.zip_key, r.is_valid))

\* A run of the script: the tracker is opened on the tracking file and
\* configured, then documents are processed one after the other.
main ==
    /\ pc \in {"start", "idle", "aborted"}
    /\ LET d == configured(_load(file), "SETP", <<range_from>>)
       IN  /\ data' = [data EXCEPT ![Pipeline] = d]
           /\ file' = _save(d)
    /\ pc' = "idle"
    /\ caller' = "none"
    /\ doc_number' = <<"", 0>>
    /\ UNCHANGED <<returned, added, verify, track_id, wait_seconds, max_retries, attempt,
                   response, log, outcome, result, libVars>>

\* process_invoice up to the send: the number is allocated first; an
\* exception of builder.build or signer.sign_xml leaves process_invoice
\* and run_batch_mode, which catch nothing.
process_invoice(v, build, signing) ==
    /\ pc = "idle"
    /\ Len(returned[Pipeline]) < MaxReturned
    /\ get_next_document_number(Pipeline)
    /\ doc_number' = prefixed_number(data'[Pipeline])
    /\ caller' = "process_invoice"
    /\ verify' = v
    /\ wait_seconds' = IF v THEN default_wait_seconds ELSE 0
    /\ pc' = IF build = "raise" \/ signing = "raise" THEN "aborted" ELSE "sending"
    /\ track_id' = None
    /\ max_retries' = 0
    /\ attempt' = 0
    /\ response' = NoResponse
    /\ log' = <<>>
    /\ outcome' = NoOutcome
    /\ result' = NoResult
    /\ UNCHANGED libVars

\* The same steps for a credit note, which refers to the invoice ref_invoice:
\* the number is taken first, the record is tracked last.
process_credit_note(v, build, signing) ==
    /\ pc = "idle"
    /\ Len(returned[Pipeline]) < MaxReturned
    /\ get_next_document_number(Pipeline)
    /\ doc_number' = prefixed_number(data'[Pipeline])
    /\ caller' = "process_credit_note"
    /\ verify' = v
    /\ wait_seconds' = IF v THEN default_wait_seconds ELSE 0
    /\ pc' = IF build = "raise" \/ signing = "raise" THEN "aborted" ELSE "sending"
    /\ track_id' = None
    /\ max_retries' = 0
    /\ attempt' = 0
    /\ response' = NoResponse
    /\ log' = <<>>
    /\ outcome' = NoOutcome
    /\ result' = NoResult
    /\ UNCHANGED libVars

\* The same steps for a debit note, which refers to the invoice ref_invoice:
\* the number is taken first, the record is tracked last.
process_debit_note(v, build, signing) ==
    /\ pc = "idle"
    /\ Len(returned[Pipeline]) < MaxReturned
    /\ get_next_document_number(Pipeline)
    /\ doc_number' = prefixed_number(data'[Pipeline])
    /\ caller' = "process_debit_note"
    /\ verify' = v
    /\ wait_seconds' = IF v THEN default_wait_seconds ELSE 0
    /\ pc' = IF build = "raise" \/ signing = "raise" THEN "aborted" ELSE "sending"
    /\ track_id' = None
    /\ max_retries' = 0
    /\ attempt' = 0
    /\ response' = NoResponse
    /\ log' = <<>>
    /\ outcome' = NoOutcome
    /\ result' = NoResult
    /\ UNCHANGED libVars

\* send_and_verify: the send, then either the start of the verification or
\* the rest of process_invoice.
send(o) ==
    /\ pc = "sending"
    /\ IF verify /\ o \in ZipKeys
       THEN LET e == verify_enter(wait_seconds, default_max_retries)
            IN  /\ pc' = "polling"
                /\ track_id' = o
                /\ max_retries' = default_max_retries
                /\ attempt' = 0
                /\ response' = NoResponse
                /\ log' = e.events
                /\ outcome' = e.outcome
                /\ UNCHANGED <<result, trackerVars>>
       ELSE /\ result' = send_result(o)
            /\ record_result(send_result(o))
            /\ pc' = "idle"
            /\ UNCHANGED <<track_id, max_retries, attempt, response, log, outcome>>
    /\ UNCHANGED <<caller, verify, doc_number, wait_seconds, libVars>>

\* A direct call of verify_status_with_retry(zk, wait, mr).
verify_status_with_retry(zk, wait, mr) ==
    /\ pc = "idle"
    /\ LET e == verify_enter(wait, mr)
       IN  /\ pc' = IF e.done THEN "idle" ELSE "polling"
           /\ log' = e.events
           /\ outcome' = e.outcome
    /\ caller' = "direct"
    /\ track_id' = zk
    /\ wait_seconds' = wait
    /\ max_retries' = mr
    /\ attempt' = 0
    /\ response' = NoResponse
    /\ UNCHANGED <<verify, doc_number, result, trackerVars, libVars>>

\* One poll of the loop; when it ends verify_status_with_retry, the caller
\* goes on: send_and_verify fills its result and process_invoice records it.
poll(o) ==
    /\ pc = "polling"
    /\ LET s == poll_step(max_retries, attempt, response, o)
       IN  /\ attempt' = s.attempt
           /\ response' = s.response
           /\ log' = log \o s.events
           /\ outcome' = s.outcome
           /\ IF ~s.done
              THEN UNCHANGED <<pc, result, trackerVars>>
              ELSE IF caller = "direct"
              THEN /\ pc' = "idle"
                   /\ UNCHANGED <<result, trackerVars>>
              ELSE /\ pc' = "idle"
                   /\ result' = send_and_verify_result(track_id, s.outcome)
                   /\ record_result(send_and_verify_result(track_id, s.outcome))
    /\ UNCHANGED <<caller, verify, doc_number, track_id, wait_seconds, max_retries, libVars>>

(***************************************************************************)
(* facho/fe/signing/xades.py: XAdESSigner.sign and sign_invoice_xades.     *)
(* An lxml element is a record of its tag, attributes, text and children;  *)
(* a text is a record too, so that a digest or a signature value keeps the *)
(* bytes it was computed from.                                             *)
(***************************************************************************)
NoText == [kind |-> "none", str |-> "", bytes |-> <<>>]
Text(s) == [kind |-> "plain", str |-> s, bytes |-> <<>>]
PLACEHOLDER == Text("PLACEHOLDER")

Attr(name, value) == [name |-> name, value |-> value]
Element(tag, attrs, text, children) ==
    [tag |-> tag, attrs |-> attrs, text |-> text, children |-> children]

\* NS['ext'] ExtensionContent, and the same local name in another namespace.
ExtensionContentTag == <<"ext", "ExtensionContent">>
ForeignContentTag == <<"other", "ExtensionContent">>

\* utils.sha256_digest, certificate.cert_to_base64, cert_digest,
\* get_issuer_dn, and private_key.sign with PKCS1v15 and SHA256.
sha256_digest(bytes) == [kind |-> "sha256", str |-> "", bytes |-> bytes]
cert_to_base64(c) == [kind |-> "b64", str |-> c, bytes |-> <<>>]
cert_digest(c) == [kind |-> "sha256-cert", str |-> c, bytes |-> <<>>]
get_issuer_dn(c) == [kind |-> "issuer", str |-> c, bytes |-> <<>>]
serial_number(c) == [kind |-> "serial", str |-> c, bytes |-> <<>>]
rsa_sign(private_key, bytes) == [kind |-> "rsa-sha256", str |-> private_key, bytes |-> bytes]

\* invoice.findall('.//{ns}ExtensionContent'): every descendant with the
\* tag, in document order; an element is named by its path of child indices.
RECURSIVE findall_from(_, _, _)
findall_from(e, tag, i) ==
    IF i > Len(e.children) THEN <<>>
    ELSE LET c == e.children[i]
             below == findall_from(c, tag, 1)
         IN  (IF c.tag = tag THEN << <<i>> >> ELSE <<>>)
             \o [k \in 1..Len(below) |-> <<i>> \o below[k]]
             \o findall_from(e, tag, i + 1)
findall(e, tag) == findall_from(e, tag, 1)

RECURSIVE ElementAt(_, _)
ElementAt(e, path) ==
    IF path = <<>> THEN e ELSE ElementAt(e.children[Head(path)], Tail(path))

\* e.find('.//tag'): the first descendant of e with the tag.
Find(e, tag) == ElementAt(e, findall(e, tag)[1])

\* A namespace declaration of an element (nsmap, xmlns:prefix="...").
Xmlns(prefix) == Attr(<<"xmlns", prefix>>, <<"NS", prefix>>)
IsXmlns(a) == a.name[1] = "xmlns"
IsPlainAttr(a) == a.name[1] # "xmlns"

\* The prefixes an element declares, and those its tag and attributes use.
NsDecls(e) == {e.attrs[i].name[2] : i \in {j \in 1..Len(e.attrs) : IsXmlns(e.attrs[j])}}
VisiblyUsed(e) ==
    {e.tag[1]} \cup
    {e.attrs[i].name[1] :
        i \in {j \in 1..Len(e.attrs) : e.attrs[j].name[1] \notin {"", "xmlns"}}}

\* The prefixes in scope for the element at path: those its ancestors declare.
RECURSIVE InScope(_, _)
InScope(e, path) ==
    IF path = <<>> THEN {}
    ELSE NsDecls(e) \cup InScope(e.children[Head(path)], Tail(path))

Range(q) == {q[i] : i \in 1..Len(q)}

\* etree.tostring(e, method='c14n', exclusive=..., with_comments=False,
\* inclusive_ns_prefixes=...) of an element whose ancestors declare scope.
\* Inclusive: the first element carries every namespace in scope.
\* Exclusive: an element carries the namespaces its tag and attributes use
\* and those of the prefix list, where no output ancestor carries them.
RECURSIVE c14n_ns(_, _, _, _, _)
RECURSIVE c14n_ns_from(_, _, _, _, _, _)
c14n_ns(e, scope, rendered, exclusive, prefixes) ==
    LET inscope == scope \cup NsDecls(e)
        ns == (IF exclusive
               THEN VisiblyUsed(e) \cup (Range(prefixes) \cap inscope)
               ELSE inscope) \ rendered
    IN  <<[k |-> "start", tag |-> e.tag, ns |-> ns,
           attrs |-> SelectSeq(e.attrs, IsPlainAttr), text |-> NoText]>>
        \o (IF e.text = NoText THEN <<>>
            ELSE <<[k |-> "text", tag |-> <<>>, ns |-> {}, attrs |-> <<>>, text |-> e.text]>>)
        \o c14n_ns_from(e, 1, inscope, rendered \cup ns, exclusive, prefixes)
        \o <<[k |-> "end", tag |-> e.tag, ns |-> {}, attrs |-> <<>>, text |-> NoText]>>
c14n_ns_from(e, i, scope, rendered, exclusive, prefixes) ==
    IF i > Len(e.children) THEN <<>>
    ELSE c14n_ns(e.children[i], scope, rendered, exclusive, prefixes)
         \o c14n_ns_from(e, i + 1, scope, rendered, exclusive, prefixes)

\* Mutant of tostring_c14n: the inclusive mode whatever the arguments.
tostring_c14n_inclusive(doc, path, exclusive, inclusive_ns_prefixes) ==
    c14n_ns(ElementAt(doc, path), InScope(doc, path), {}, FALSE, <<>>)

\* The canonical form of the element at path of doc.
tostring_c14n(doc, path, exclusive, inclusive_ns_prefixes) ==
    c14n_ns(ElementAt(doc, path), InScope(doc, path), {}, exclusive, inclusive_ns_prefixes)

\* The element at path with its children replaced (remove, insert, append).
RECURSIVE SetChildren(_, _, _)
SetChildren(e, path, children) ==
    IF path = <<>>
    THEN [e EXCEPT !.children = children]
    ELSE [e EXCEPT !.children[Head(path)] = SetChildren(@, Tail(path), children)]

\* sig.insert(i, e), sig.append(e): an element moved under a parent whose
\* scope is given loses, with its descendants, every namespace declaration
\* an ancestor already makes (lxml moveNodeToDocument).
RECURSIVE moveNodeToDocument(_, _)
moveNodeToDocument(e, scope) ==
    LET IsNeeded(a) == IsXmlns(a) => a.name[2] \notin scope
        kept == SelectSeq(e.attrs, IsNeeded)
        inner == scope \cup NsDecls(e)
    IN  [e EXCEPT !.attrs = kept,
                  !.children = [i \in 1..Len(e.children) |->
                                   moveNodeToDocument(e.children[i], inner)]]

\* etree.SubElement(parent, ...): child becomes the last child of the
\* element at path.
RECURSIVE SubElement(_, _, _)
SubElement(e, path, child) ==
    IF path = <<>>
    THEN [e EXCEPT !.children = Append(@, child)]
    ELSE [e EXCEPT !.children[Head(path)] = SubElement(@, Tail(path), child)]

DigestMethod ==
    Element(<<"ds", "DigestMethod">>, <<Attr(<<"", "Algorithm">>, <<"SHA256_ALG">>)>>,
            NoText, <<>>)
DigestValue(text) == Element(<<"ds", "DigestValue">>, <<>>, text, <<>>)

\* SignedInfo with its three references (xades.py 198-226).
SignedInfo(ref_id, keyinfo_id, signed_props_id, dv1, dv2, dv3) ==
    Element(<<"ds", "SignedInfo">>, <<>>, NoText,
        << Element(<<"ds", "CanonicalizationMethod">>,
                   <<Attr(<<"", "Algorithm">>, <<"C14N_ALG">>)>>, NoText, <<>>),
           Element(<<"ds", "SignatureMethod">>,
                   <<Attr(<<"", "Algorithm">>, <<"RSA_SHA256">>)>>, NoText, <<>>),
           Element(<<"ds", "Reference">>,
                   <<Attr(<<"", "Id">>, ref_id), Attr(<<"", "URI">>, <<>>)>>, NoText,
               << Element(<<"ds", "Transforms">>, <<>>, NoText,
                      <<Element(<<"ds", "Transform">>,
                                <<Attr(<<"", "Algorithm">>, <<"ENVELOPED_SIG">>)>>,
                                NoText, <<>>)>>),
                  DigestMethod, DigestValue(dv1) >>),
           Element(<<"ds", "Reference">>, <<Attr(<<"", "URI">>, <<"#">> \o keyinfo_id)>>, NoText,
               << DigestMethod, DigestValue(dv2) >>),
           Element(<<"ds", "Reference">>,
                   <<Attr(<<"", "Type">>, <<"SIGNED_PROPS_TYPE">>),
                     Attr(<<"", "URI">>, <<"#">> \o signed_props_id)>>, NoText,
               << DigestMethod, DigestValue(dv3) >>) >>)

X509Certificate(c) == Element(<<"ds", "X509Certificate">>, <<>>, cert_to_base64(c), <<>>)

\* KeyInfo (xades.py 232-238): the certificate, then chain[0] if there is one.
KeyInfo(keyinfo_id, cert, chain) ==
    Element(<<"ds", "KeyInfo">>, <<Attr(<<"", "Id">>, keyinfo_id)>>, NoText,
        <<Element(<<"ds", "X509Data">>, <<>>, NoText,
              <<X509Certificate(cert)>>
              \o (IF chain # <<>> THEN <<X509Certificate(chain[1])>> ELSE <<>>))>>)

\* add_cert (xades.py 257-264).
add_cert(c) ==
    Element(<<"xades", "Cert">>, <<>>, NoText,
        << Element(<<"xades", "CertDigest">>, <<>>, NoText,
               <<DigestMethod, DigestValue(cert_digest(c))>>),
           Element(<<"xades", "IssuerSerial">>, <<>>, NoText,
               << Element(<<"ds", "X509IssuerName">>, <<>>, get_issuer_dn(c), <<>>),
                  Element(<<"ds", "X509SerialNumber">>, <<>>, serial_number(c), <<>>) >>) >>)

\* SignedProperties (xades.py 249-281).
SignedProperties(signed_props_id, signing_time, cert, chain) ==
    Element(<<"xades", "SignedProperties">>, <<Attr(<<"", "Id">>, signed_props_id)>>, NoText,
        <<Element(<<"xades", "SignedSignatureProperties">>, <<>>, NoText,
            << Element(<<"xades", "SigningTime">>, <<>>, Text(signing_time), <<>>),
               Element(<<"xades", "SigningCertificate">>, <<>>, NoText,
                   <<add_cert(cert)>>
                   \o (IF chain # <<>> THEN <<add_cert(chain[1])>> ELSE <<>>)),
               Element(<<"xades", "SignaturePolicyIdentifier">>, <<>>, NoText,
                   <<Element(<<"xades", "SignaturePolicyId">>, <<>>, NoText,
                       << Element(<<"xades", "SigPolicyId">>, <<>>, NoText,
                              <<Element(<<"xades", "Identifier">>, <<>>,
                                        Text("POLITICA_URL"), <<>>)>>),
                          Element(<<"xades", "SigPolicyHash">>, <<>>, NoText,
                              <<DigestMethod, DigestValue(Text("POLITICA_HASH"))>>) >>)>>),
               Element(<<"xades", "SignerRole">>, <<>>, NoText,
                   <<Element(<<"xades", "ClaimedRoles">>, <<>>, NoText,
                       <<Element(<<"xades", "ClaimedRole">>, <<>>, Text("supplier"), <<>>)>>)>>)
            >>)>>)

\* Object/QualifyingProperties (xades.py 241-247).
Object(sig_id, sp) ==
    Element(<<"ds", "Object">>, <<>>, NoText,
        <<Element(<<"xades", "QualifyingProperties">>,
                  <<Xmlns("xades"), Attr(<<"", "Target">>, <<"#">> \o sig_id)>>,
                  NoText, <<sp>>)>>)

\* Mutant of Signature: KeyInfo is placed before SignatureValue.
Signature_keyinfo_second(sig_id, si, signature_value, ki, obj) ==
    Element(<<"ds", "Signature">>, <<Xmlns("ds"), Attr(<<"", "Id">>, sig_id)>>, NoText,
        <<si, ki, Element(<<"ds", "SignatureValue">>, <<>>, signature_value, <<>>), obj>>)

\* The Signature element: its children in the order the code inserts them.
Signature(sig_id, si, signature_value, ki, obj) ==
    Element(<<"ds", "Signature">>, <<Xmlns("ds"), Attr(<<"", "Id">>, sig_id)>>, NoText,
        <<si, Element(<<"ds", "SignatureValue">>, <<>>, signature_value, <<>>), ki, obj>>)

\* Mutant of Raised: the tree is left with the Signature already inserted.
Raised_after_insert(exc, tree) ==
    [raised |-> exc,
     invoice |-> SubElement(tree, <<>>, Element(<<"ds", "Signature">>, <<>>, NoText, <<>>))]

\* What a call leaves: the exception it raised (None if it returned) and
\* the tree of the element it was given.
Raised(exc, tree) == [raised |-> exc, invoice |-> tree]
Returned(tree) == [raised |-> None, invoice |-> tree]

\* element.text = text for the element at path.
RECURSIVE SetText(_, _, _)
SetText(e, path, text) ==
    IF path = <<>>
    THEN [e EXCEPT !.text = text]
    ELSE [e EXCEPT !.children[Head(path)] = SetText(@, Tail(path), text)]

\* The elements of the inserted Signature the later steps work on, as paths
\* from the Signature element: si, ref2_dv, ref3_dv, sig_val, ki, sp.
si_path == <<1>>
ref2_dv_path == <<1, 4, 2>>
ref3_dv_path == <<1, 5, 2>>
sig_val_path == <<2>>
ki_path == <<3>>
sp_path == <<4, 1, 1>>

\* PASO 1: the digest of the document before the signature is inserted.
paso1(tree) == sha256_digest(tostring_c14n(tree, <<>>, FALSE, <<>>))

\* The Signature element as PASO 2 builds it: the document digest in
\* Reference 1, placeholders in Reference 2, Reference 3 and SignatureValue.
signature_structure(ids, doc_digest, cert, chain, signing_time) ==
    Signature(ids.sig_id,
              SignedInfo(ids.ref_id, ids.keyinfo_id, ids.signed_props_id,
                         doc_digest, PLACEHOLDER, PLACEHOLDER),
              PLACEHOLDER,
              KeyInfo(ids.keyinfo_id, cert, chain),
              Object(ids.sig_id,
                     SignedProperties(ids.signed_props_id, signing_time, cert, chain)))

\* Mutant of paso2: the document digest is taken after the insertion.
paso2_digest_after(tree, sig_container, ids, doc_digest, cert, chain, signing_time) ==
    LET t == SubElement(tree, sig_container,
                 signature_structure(ids, doc_digest, cert, chain, signing_time))
    IN  SubElement(tree, sig_container,
            signature_structure(ids, paso1(t), cert, chain, signing_time))

\* PASO 2: the Signature becomes the last child of sig_container.
paso2(tree, sig_container, ids, doc_digest, cert, chain, signing_time) ==
    SubElement(tree, sig_container,
        signature_structure(ids, doc_digest, cert, chain, signing_time))

\* PASO 3: the digest of KeyInfo replaces the placeholder of Reference 2.
paso3(tree, sig) ==
    SetText(tree, sig \o ref2_dv_path,
            sha256_digest(tostring_c14n(tree, sig \o ki_path, FALSE, <<>>)))

\* PASO 4: the digest of SignedProperties replaces that of Reference 3.
paso4(tree, sig) ==
    SetText(tree, sig \o ref3_dv_path,
            sha256_digest(tostring_c14n(tree, sig \o sp_path, FALSE, <<>>)))

\* Mutant of paso5: SignedInfo is signed as PASO 2 left it.
paso5_before_digests(tree, sig, private_key) ==
    LET t == SetText(SetText(tree, sig \o ref2_dv_path, PLACEHOLDER),
                     sig \o ref3_dv_path, PLACEHOLDER)
    IN  SetText(tree, sig \o sig_val_path,
                rsa_sign(private_key, tostring_c14n(t, sig \o si_path, FALSE, <<>>)))

\* PASO 5: SignedInfo is canonicalised and signed; the value replaces the
\* placeholder of SignatureValue.
paso5(tree, sig, private_key) ==
    SetText(tree, sig \o sig_val_path,
            rsa_sign(private_key, tostring_c14n(tree, sig \o si_path, FALSE, <<>>)))

\* sign_invoice_xades.  uuids are the four uuid4() values and now is the
\* datetime.now() the function reads.
sign_invoice_xades(tree, private_key, cert, chain, uuids, now) ==
    LET ids == [sig_id |-> <<"xmldsig", uuids[1]>>,
                signed_props_id |-> <<"xmldsig", uuids[2], "signedprops">>,
                keyinfo_id |-> <<"xmldsig", uuids[3], "keyinfo">>,
                ref_id |-> <<"xmldsig", uuids[4], "ref0">>]
        signing_time == now
        doc_digest == paso1(tree)
        ext_contents == findall(tree, ExtensionContentTag)
    IN  IF Len(ext_contents) < 2
        THEN Raised("ValueError", tree)
        ELSE LET sig_container == ext_contents[2]
                 signature ==
                     sig_container \o <<Len(ElementAt(tree, sig_container).children) + 1>>
                 t2 == paso2(tree, sig_container, ids, doc_digest, cert, chain, signing_time)
                 t3 == paso3(t2, signature)
                 t4 == paso4(t3, signature)
             IN  Returned(paso5(t4, signature, private_key))

\* The documents given to sign: an Invoice whose UBLExtensions holds up to
\* MaxExtensions UBLExtension elements, each with one ExtensionContent that
\* is empty, or holds the DIAN extensions, or is of another namespace.
ContainerKinds == {"empty", "dian", "foreign"}
UBLExtension(kind) ==
    Element(<<"ext", "UBLExtension">>, <<>>, NoText,
        <<Element(IF kind = "foreign" THEN ForeignContentTag ELSE ExtensionContentTag,
                  IF kind = "foreign" THEN <<Xmlns("other")>> ELSE <<>>, NoText,
                  IF kind = "dian"
                  THEN <<Element(<<"sts", "DianExtensions">>, <<>>, NoText, <<>>)>>
                  ELSE <<>>)>>)
Invoice(kinds) ==
    Element(<<"", "Invoice">>,
            <<Xmlns(""), Xmlns("cac"), Xmlns("cbc"), Xmlns("ext"), Xmlns("sts"), Xmlns("xsi")>>,
            NoText,
        << Element(<<"ext", "UBLExtensions">>, <<>>, NoText,
               [i \in 1..Len(kinds) |-> UBLExtension(kinds[i])]),
           Element(<<"cbc", "ID">>, <<>>, Text("SETP990000001"), <<>>) >>)
Invoices ==
    {Invoice(kinds) : kinds \in UNION {[1..n -> ContainerKinds] : n \in 0..MaxExtensions}}

\* Two outcomes of the four uuid4() draws of a call.
UUIDs == {<<"0a", "1b", "2c", "3d">>, <<"4e", "5f", "6a", "7b">>}
Clock == {"2024-01-01T10:00:00-05:00", "2024-01-01T10:00:01-05:00"}
Chains == {<<>>, <<"ca">>}
NoElement == Element(<<>>, <<>>, NoText, <<>>)

\* XAdESSigner.sign(xml_element) of a signer made with private_key "key",
\* certificate "cert" and the chain.  A call keeps nothing for the next
\* one, so a behaviour makes one call.
sign(element, chain, uuids, now) ==
    /\ xml_element = NoElement
    /\ xml_element' = element
    /\ LET r == sign_invoice_xades(element, "key", "cert", chain, uuids, now)
       IN  /\ invoice' = r.invoice
           /\ sign_raised' = r.raised
    /\ UNCHANGED <<trackerVars, clientVars, envelope, identVars, parseVars, utilVars,
                   scriptVars>>

InitSign ==
    /\ xml_element = NoElement
    /\ invoice = NoElement
    /\ sign_raised = None
    /\ envelope = NoElement

NextSign ==
    \E element \in Invoices, chain \in Chains, uuids \in UUIDs, now \in Clock :
        sign(element, chain, uuids, now)

(***************************************************************************)
(* facho/fe/client/dian_simple.py: _build_wssec_soap, the WS-Security      *)
(* signer (the same code is in builders/soap_client.py build_wssec_soap    *)
(* and in dian_fe/dian_client.py).  The tag of an element and the name of  *)
(* an attribute are <<prefix, local name>>; a namespace declaration is the *)
(* attribute <<"xmlns", prefix>>.  White space between elements is left    *)
(* out.                                                                    *)
(***************************************************************************)
\* The ids of a message (dian_simple.py 266-272).
wssec_ids(suffix) ==
    [ts |-> <<"TS", suffix>>, tok |-> <<"X509", suffix>>, sig |-> <<"SIG", suffix>>,
     ki |-> <<"KI", suffix>>, str |-> <<"STR", suffix>>, to |-> <<"id-TO", suffix>>]

\* soap_template (dian_simple.py 280-300).
soap_template(body_content, action, endpoint, cert_b64, ids, created_str, expires_str) ==
    Element(<<"soap", "Envelope">>, <<Xmlns("soap"), Xmlns("wcf")>>, NoText,
      << Element(<<"soap", "Header">>, <<Xmlns("wsa")>>, NoText,
           << Element(<<"wsse", "Security">>, <<Xmlns("wsse"), Xmlns("wsu")>>, NoText,
                << Element(<<"wsu", "Timestamp">>, <<Attr(<<"wsu", "Id">>, ids.ts)>>, NoText,
                     << Element(<<"wsu", "Created">>, <<>>, Text(created_str), <<>>),
                        Element(<<"wsu", "Expires">>, <<>>, Text(expires_str), <<>>) >>),
                   Element(<<"wsse", "BinarySecurityToken">>,
                     << Attr(<<"", "EncodingType">>, <<"Base64Binary">>),
                        Attr(<<"", "ValueType">>, <<"X509v3">>),
                        Attr(<<"wsu", "Id">>, ids.tok) >>, cert_b64, <<>>),
                   Element(<<"ds", "Signature">>,
                     <<Xmlns("ds"), Attr(<<"", "Id">>, ids.sig)>>, NoText,
                     <<Element(<<"ds", "KeyInfo">>, <<Attr(<<"", "Id">>, ids.ki)>>, NoText,
                         <<Element(<<"wsse", "SecurityTokenReference">>,
                             <<Attr(<<"wsu", "Id">>, ids.str)>>, NoText,
                             <<Element(<<"wsse", "Reference">>,
                                 << Attr(<<"", "URI">>, <<"#">> \o ids.tok),
                                    Attr(<<"", "ValueType">>, <<"X509v3">>) >>,
                                 NoText, <<>>)>>)>>)>>) >>),
              Element(<<"wsa", "Action">>, <<>>, Text(action), <<>>),
              Element(<<"wsa", "To">>, <<Xmlns("wsu"), Attr(<<"wsu", "Id">>, ids.to)>>,
                      Text(endpoint), <<>>) >>),
         Element(<<"soap", "Body">>, <<>>, NoText, body_content) >>)

\* One ds:Reference of signed_info_xml: the URI, the exclusive transform
\* with its PrefixList, the digest.
wssec_reference(id, prefix_list, digest) ==
    Element(<<"ds", "Reference">>, <<Attr(<<"", "URI">>, <<"#">> \o id)>>, NoText,
      << Element(<<"ds", "Transforms">>, <<>>, NoText,
           <<Element(<<"ds", "Transform">>,
               <<Attr(<<"", "Algorithm">>, <<"C14N_EXC_ALG">>)>>, NoText,
               <<Element(<<"ec", "InclusiveNamespaces">>,
                   <<Xmlns("ec"), Attr(<<"", "PrefixList">>, prefix_list)>>,
                   NoText, <<>>)>>)>>),
         Element(<<"ds", "DigestMethod">>,
                 <<Attr(<<"", "Algorithm">>, <<"SHA256_ALG">>)>>, NoText, <<>>),
         Element(<<"ds", "DigestValue">>, <<>>, digest, <<>>) >>)

\* Mutant of build_signed_info_xml: a third Reference, of the Body.
build_signed_info_xml_with_body(ids, ts_digest, to_digest) ==
    Element(<<"ds", "SignedInfo">>,
      <<Xmlns("ds"), Xmlns("soap"), Xmlns("wsa"), Xmlns("wsu")>>, NoText,
      << wssec_reference(ids.ts, <<"wsu", "soap">>, ts_digest),
         wssec_reference(ids.to, <<"wsu", "soap", "wsa">>, to_digest),
         wssec_reference(<<"Body">>, <<"soap">>, to_digest) >>)

\* signed_info_xml (dian_simple.py 321-344, soap_client.py 150-191).
build_signed_info_xml(ids, ts_digest, to_digest) ==
    Element(<<"ds", "SignedInfo">>,
      <<Xmlns("ds"), Xmlns("soap"), Xmlns("wsa"), Xmlns("wsu")>>, NoText,
      << Element(<<"ds", "CanonicalizationMethod">>,
           <<Attr(<<"", "Algorithm">>, <<"C14N_EXC_ALG">>)>>, NoText,
           <<Element(<<"ec", "InclusiveNamespaces">>,
               <<Xmlns("ec"), Attr(<<"", "PrefixList">>, <<"soap", "wsa">>)>>,
               NoText, <<>>)>>),
         Element(<<"ds", "SignatureMethod">>,
                 <<Attr(<<"", "Algorithm">>, <<"RSA_SHA256">>)>>, NoText, <<>>),
         wssec_reference(ids.ts, <<"wsu", "soap">>, ts_digest),
         wssec_reference(ids.to, <<"wsu", "soap", "wsa">>, to_digest) >>)

\* _build_wssec_soap: the envelope with the signed Security header.
\* doc.find is the first match in document order; the Signature ends with
\* the children SignedInfo, SignatureValue, KeyInfo.
build_wssec_soap(body_content, action, endpoint, private_key, cert_b64, suffix, clock) ==
    LET ids == wssec_ids(suffix)
        doc == soap_template(body_content, action, endpoint, cert_b64, ids,
                             clock.created, clock.expires)
        timestamp == findall(doc, <<"wsu", "Timestamp">>)[1]
        to_el == findall(doc, <<"wsa", "To">>)[1]
        ts_digest == sha256_digest(tostring_c14n(doc, timestamp, TRUE, <<"wsu", "soap">>))
        to_digest == sha256_digest(tostring_c14n(doc, to_el, TRUE, <<"wsu", "soap", "wsa">>))
        sig == findall(doc, <<"ds", "Signature">>)[1]
        si_doc == build_signed_info_xml(ids, ts_digest, to_digest)
        si_c14n == tostring_c14n(si_doc, <<>>, TRUE, <<"soap", "wsa">>)
        sig_val_el == Element(<<"ds", "SignatureValue">>, <<>>,
                              rsa_sign(private_key, si_c14n), <<>>)
        key_info == Find(ElementAt(doc, sig), <<"ds", "KeyInfo">>)
        scope == InScope(doc, sig) \cup NsDecls(ElementAt(doc, sig))
    IN  SetChildren(doc, sig, << moveNodeToDocument(si_doc, scope),
                                 moveNodeToDocument(sig_val_el, scope),
                                 moveNodeToDocument(key_info, scope) >>)

\* The requests of the client: the body and its action.
SoapRequests ==
    { [body |-> <<Element(<<"wcf", "SendTestSetAsync">>, <<Xmlns("wcf")>>, NoText,
                    << Element(<<"wcf", "fileName">>, <<>>, Text("z.zip"), <<>>),
                       Element(<<"wcf", "contentFile">>, <<>>, Text("UEsDBA=="), <<>>),
                       Element(<<"wcf", "testSetId">>, <<>>, Text("test-set"), <<>>) >>)>>,
       action |-> "SendTestSetAsync"],
      [body |-> <<Element(<<"wcf", "GetStatusZip">>, <<Xmlns("wcf")>>, NoText,
                    <<Element(<<"wcf", "trackId">>, <<>>, Text("zk1"), <<>>)>>)>>,
       action |-> "GetStatusZip"] }
Endpoints == {"ENDPOINT_HABILITACION", "ENDPOINT_PRODUCCION"}
Suffixes == {"0a1b2c3d", "4e5f6a7b"}
SoapClock ==
    { [created |-> "2024-01-01T10:00:00.000Z", expires |-> "2024-01-01T15:00:00.000Z"],
      [created |-> "2024-01-01T10:00:00.001Z", expires |-> "2024-01-01T15:00:00.001Z"] }

\* self._build_wssec_soap(body_content, action) of a client with the
\* endpoint, the private key "key" and the certificate "cert"; a call keeps
\* nothing for the next one, so a behaviour makes one call.
_build_wssec_soap(request, endpoint, suffix, clock) ==
    /\ envelope = NoElement
    /\ envelope' = build_wssec_soap(request.body, request.action, endpoint, "key",
                                    cert_to_base64("cert"), suffix, clock)
    /\ UNCHANGED <<trackerVars, clientVars, xml_element, invoice, sign_raised,
                   identVars, parseVars, utilVars, scriptVars>>

NextSoap ==
    \E request \in SoapRequests, endpoint \in Endpoints, suffix \in Suffixes,
       clock \in SoapClock :
        _build_wssec_soap(request, endpoint, suffix, clock)

(***************************************************************************)
(* facho/fe/builders/cufe.py and the identifier functions of               *)
(* facho/fe/client/dian_simple.py (the same as dian_fe/utils.py).  An      *)
(* amount is a number of thousandths: 99995 is the float 99.995.  A string *)
(* is a sequence of pieces; an amount is written digit by digit.           *)
(***************************************************************************)
Amounts == {0, 5, 280, 290, 1005, 99995, 99999, 100000}

\* The amounts whose double product valor * 100 is below the exact product
\* (0.29 * 100 is 28.999999999999996), and the amounts on a decimal tie whose
\* double is above the tie (0.005 and 99.995; the double of 1.005 is below).
ProductBelow == {290}
DoubleAboveTie == {5, 99995}

\* taxes.truncar(valor, 2): math.trunc(valor * 100) / 100, in hundredths.
truncar(valor) ==
    IF valor \in ProductBelow THEN (valor \div 10) - 1 ELSE valor \div 10

\* f"{v:.2f}" of the double v = hundredths/100 + thousandths/1000, in
\* hundredths: rounded to the nearest, a tie by the side the double is on.
round_2f(hundredths, thousandths) ==
    IF thousandths > 5
       \/ (thousandths = 5 /\ (10 * hundredths + thousandths) \in DoubleAboveTie)
    THEN hundredths + 1 ELSE hundredths

RECURSIVE Digits(_)
Digits(n) ==
    IF n < 10 THEN <<<<"0", "1", "2", "3", "4", "5", "6", "7", "8", "9">>[n + 1]>>
    ELSE Digits(n \div 10) \o Digits(n % 10)

\* The text f"{v:.2f}" writes: the units, the point, two digits.
fixed_2f(hundredths, thousandths) ==
    LET h == round_2f(hundredths, thousandths)
    IN  Digits(h \div 100) \o <<".">> \o Digits((h \div 10) % 10) \o Digits(h % 10)

\* cufe.format_amount(value): f"{truncar(value, 2):.2f}".
format_amount(value) == fixed_2f(truncar(value), 0)

\* f"{value:.2f}" of an amount, as the client functions write it.
format_2f(value) == fixed_2f(value \div 10, value % 10)

sha384(cadena) == [kind |-> "sha384", str |-> "", bytes |-> cadena]

\* CufeInput.
CufeInput(number, date, time, subtotal, iva, inc, ica, total, supplier, customer, key, env) ==
    [number |-> number, issue_date |-> date, issue_time |-> time,
     subtotal |-> subtotal, iva_amount |-> iva, inc_amount |-> inc,
     ica_amount |-> ica, total |-> total, supplier_nit |-> supplier,
     customer_nit |-> customer, technical_key |-> key, environment |-> env]

build_cufe_string(d) ==
    <<d.number, d.issue_date, d.issue_time>>
    \o format_amount(d.subtotal) \o <<"01">> \o format_amount(d.iva_amount)
    \o <<"04">> \o format_amount(d.inc_amount)
    \o <<"03">> \o format_amount(d.ica_amount)
    \o format_amount(d.total)
    \o <<d.supplier_nit, d.customer_nit, d.technical_key, d.environment>>

calculate_cufe(d) == sha384(build_cufe_string(d))

\* if software_pin: a None and an empty software_pin are false.
calculate_cude(d, software_pin) ==
    IF software_pin \notin {None, ""}
    THEN sha384(build_cufe_string([d EXCEPT !.technical_key = software_pin]))
    ELSE sha384(build_cufe_string(d))

get_uuid_type(doc_type_code) ==
    CASE doc_type_code \in {"01", "02", "04"} -> "CUFE-SHA384"
      [] doc_type_code \in {"03", "91", "92"} -> "CUDE-SHA384"
      [] doc_type_code \in {"05", "95"} -> "CUDS-SHA384"
      [] OTHER -> "CUFE-SHA384"

calculate_uuid_by_doc_type(d, doc_type_code, software_pin) ==
    LET uuid_type == get_uuid_type(doc_type_code)
    IN  IF uuid_type = "CUFE-SHA384" THEN calculate_cufe(d)
        ELSE IF uuid_type \in {"CUDE-SHA384", "CUDS-SHA384"}
             THEN calculate_cude(d, software_pin)
             ELSE calculate_cufe(d)

\* dian_simple.calcular_cufe_flexible and calcular_cude_flexible: one
\* string, the secret being the clave_tecnica or the software_pin.
calcular_flexible(numero, fecha, hora, subtotal, iva, inc, ica, total, emisor, adq, secret, amb) ==
    sha384(<<numero, fecha, hora>>
           \o format_2f(subtotal) \o <<"01">> \o format_2f(iva)
           \o <<"04">> \o format_2f(inc) \o <<"03">> \o format_2f(ica)
           \o format_2f(total)
           \o <<emisor, adq, secret, amb>>)

\* dian_simple.calcular_cufe and calcular_cude: INC and ICA are f"{0:.2f}".
calcular_legacy(numero, fecha, hora, subtotal, iva, total, emisor, adq, secret, amb) ==
    calcular_flexible(numero, fecha, hora, subtotal, iva, 0, 0, total, emisor, adq, secret, amb)

\* The identifier a function returns for the fields d.
\* taxes.get(code, 0.0) of a dictionary of tax code -> amount
get(taxes, code) == IF code \in DOMAIN taxes THEN taxes[code] ELSE 0

calculate_cufe_from_taxes(n, fd, ft, sub, taxes, tot, sup, cus, key, env) ==
    calculate_cufe(CufeInput(n, fd, ft, sub, get(taxes, "01"), get(taxes, "04"),
                             get(taxes, "03"), tot, sup, cus, key, env))

\* The dictionary a caller groups the taxes of d in: the codes with an amount.
TaxesOf(d) ==
    LET amount == [code \in {"01", "04", "03"} |->
                      CASE code = "01" -> d.iva_amount
                        [] code = "04" -> d.inc_amount
                        [] code = "03" -> d.ica_amount]
    IN  [code \in {c \in DOMAIN amount : amount[c] # 0} |-> amount[code]]

Functions ==
    {"calculate_cufe", "calculate_cude", "calculate_uuid_by_doc_type",
     "calcular_cufe", "calcular_cude", "calcular_cufe_flexible", "calcular_cude_flexible",
     "calculate_cufe_from_taxes"}
Identifier(fn, d, doc_type_code, software_pin) ==
    CASE fn = "calculate_cufe" -> calculate_cufe(d)
      [] fn = "calculate_cufe_from_taxes" ->
             calculate_cufe_from_taxes(d.number, d.issue_date, d.issue_time, d.subtotal,
                                       TaxesOf(d), d.total, d.supplier_nit, d.customer_nit,
                                       d.technical_key, d.environment)
      [] fn = "calculate_cude" -> calculate_cude(d, software_pin)
      [] fn = "calculate_uuid_by_doc_type" ->
             calculate_uuid_by_doc_type(d, doc_type_code, software_pin)
      [] fn \in {"calcular_cufe", "calcular_cude"} ->
             calcular_legacy(d.number, d.issue_date, d.issue_time, d.subtotal,
                             d.iva_amount, d.total, d.supplier_nit, d.customer_nit,
                             d.technical_key, d.environment)
      [] fn \in {"calcular_cufe_flexible", "calcular_cude_flexible"} ->
             calcular_flexible(d.number, d.issue_date, d.issue_time, d.subtotal,
                               d.iva_amount, d.inc_amount, d.ica_amount, d.total,
                               d.supplier_nit, d.customer_nit, d.technical_key,
                               d.environment)

\* The values of the fields.
NumberValues == {"SETP990000001", "SETP990000002"}
DateValues == {"2024-01-15", "2024-01-16"}
TimeValues == {"10:30:00-05:00", "10:30:01-05:00"}
NitValues == {"1001186599", "222222222222"}
SecretValues == {"clave_tecnica", "otra_clave"}
EnvironmentValues == {"1", "2"}
DocTypeCodes == {"01", "02", "03", "04", "05", "91", "92", "95"}
SoftwarePins == {None, "", "software_pin"}
CufeInputs ==
    {CufeInput(n, "2024-01-15", "10:30:00-05:00", s, iva, inc, ica, t,
               "1001186599", "222222222222", k, e) :
        n \in {"SETP990000001"}, s \in Amounts, iva \in {0, 99995}, inc \in {0, 290},
        ica \in {0, 1005}, t \in {5, 100000}, k \in {"clave_tecnica"},
        e \in EnvironmentValues}

NoCall == [fn |-> "", data |-> CufeInput("", "", "", 0, 0, 0, 0, 0, "", "", "", ""),
           doc_type_code |-> "", software_pin |-> None]
NoIdentifier == [kind |-> "none", str |-> "", bytes |-> <<>>]

\* One call of an identifier function; the legacy functions have no INC and
\* ICA arguments.  A call keeps nothing, so a behaviour makes one call.
identifier_call(fn, d, doc_type_code, software_pin) ==
    /\ ident_call = NoCall
    /\ ident_call' = [fn |-> fn, data |-> d, doc_type_code |-> doc_type_code,
                      software_pin |-> software_pin]
    /\ identifier' = Identifier(fn, d, doc_type_code, software_pin)

call_calculate_cufe ==
    \E d \in CufeInputs :
        /\ identifier_call("calculate_cufe", d, "", None)
        /\ UNCHANGED <<trackerVars, clientVars, signVars, parseVars, utilVars, scriptVars>>
call_calculate_cufe_from_taxes ==
    \E d \in CufeInputs :
        /\ identifier_call("calculate_cufe_from_taxes", d, "", None)
        /\ UNCHANGED <<trackerVars, clientVars, signVars, parseVars, utilVars, scriptVars>>
call_calculate_cude ==
    \E d \in CufeInputs, pin \in SoftwarePins :
        /\ identifier_call("calculate_cude", d, "", pin)
        /\ UNCHANGED <<trackerVars, clientVars, signVars, parseVars, utilVars, scriptVars>>
call_calculate_uuid_by_doc_type ==
    \E d \in CufeInputs, code \in DocTypeCodes, pin \in SoftwarePins :
        /\ identifier_call("calculate_uuid_by_doc_type", d, code, pin)
        /\ UNCHANGED <<trackerVars, clientVars, signVars, parseVars, utilVars, scriptVars>>
call_calcular_cufe ==
    \E d \in CufeInputs :
        /\ d.inc_amount = 0 /\ d.ica_amount = 0
        /\ identifier_call("calcular_cufe", d, "", None)
        /\ UNCHANGED <<trackerVars, clientVars, signVars, parseVars, utilVars, scriptVars>>
call_calcular_cude ==
    \E d \in CufeInputs :
        /\ d.inc_amount = 0 /\ d.ica_amount = 0
        /\ identifier_call("calcular_cude", d, "", None)
        /\ UNCHANGED <<trackerVars, clientVars, signVars, parseVars, utilVars, scriptVars>>
call_calcular_cufe_flexible ==
    \E d \in CufeInputs :
        /\ identifier_call("calcular_cufe_flexible", d, "", None)
        /\ UNCHANGED <<trackerVars, clientVars, signVars, parseVars, utilVars, scriptVars>>
call_calcular_cude_flexible ==
    \E d \in CufeInputs :
        /\ identifier_call("calcular_cude_flexible", d, "", None)
        /\ UNCHANGED <<trackerVars, clientVars, signVars, parseVars, utilVars, scriptVars>>

InitIdentifiers == ident_call = NoCall /\ identifier = NoIdentifier
NextIdentifiers ==
    \/ call_calculate_cufe
    \/ call_calculate_cufe_from_taxes
    \/ call_calculate_cude
    \/ call_calculate_uuid_by_doc_type
    \/ call_calcular_cufe
    \/ call_calcular_cude
    \/ call_calcular_cufe_flexible
    \/ call_calcular_cude_flexible

(***************************************************************************)
(* The response parsers: DianSimpleClient._parse_send_test_set_response    *)
(* and _parse_status_response (facho/fe/client/dian_simple.py) and         *)
(* DianClient._parse_response (dian_fe/dian_client.py).  The tag of an     *)
(* element of a response is <<namespace, local name>>; the namespaces are  *)
(* upload (.../UploadDocumentResponse), resp (.../DianResponse) and dian   *)
(* (http://wcf.dian.colombia).  A field of the response object is unset    *)
(* (None) or holds a value, a sequence of strings.                         *)
(***************************************************************************)
Unset == [filled |-> FALSE, value |-> <<>>]
Filled(value) == [filled |-> TRUE, value |-> value]

\* DianResponse(xml_response=...), SendTestSetResponse(xml_response=...).
DianResponse ==
    [zip_key |-> Unset, is_valid |-> Unset, status_code |-> Unset,
     status_description |-> Unset, status_message |-> Unset, error_messages |-> Unset]

\* doc.find('.//{ns}name') under the first namespace, under the second if
\* that is None: the element found, NoElement for None.
find_either(doc, ns_first, ns_second, name) ==
    IF findall(doc, <<ns_first, name>>) # <<>> THEN Find(doc, <<ns_first, name>>)
    ELSE IF findall(doc, <<ns_second, name>>) # <<>> THEN Find(doc, <<ns_second, name>>)
    ELSE NoElement

\* doc.findall('.//{ns}name'): the elements at the paths.
findall_elements(doc, tag) ==
    [i \in 1..Len(findall(doc, tag)) |-> ElementAt(doc, findall(doc, tag)[i])]

\* doc.findall under the first namespace, under the second if that is empty.
findall_either(doc, ns_first, ns_second, name) ==
    IF findall(doc, <<ns_first, name>>) # <<>>
    THEN findall_elements(doc, <<ns_first, name>>)
    ELSE findall_elements(doc, <<ns_second, name>>)

HasTextValue(e) == e.text # NoText

\* [e.text for e in elements if e.text]
texts(elements) ==
    LET with_text == SelectSeq(elements, HasTextValue)
    IN  [i \in 1..Len(with_text) |-> with_text[i].text.str]

\* '; '.join(msgs)
RECURSIVE join(_)
join(msgs) ==
    IF Len(msgs) = 0 THEN <<"">>
    ELSE IF Len(msgs) = 1 THEN msgs
    ELSE <<Head(msgs), "; ">> \o join(Tail(msgs))

\* is_valid.text.lower() == 'true'
lower_is_true(text) == text.str \in {"true", "True", "TRUE"}
bool(b) == IF b THEN <<"True">> ELSE <<"False">>

\* The status fields as _parse_status_response and _parse_response set them
\* after IsValid, in the order of the code.
status_fields(rsp, doc, ns_data, ns_dian, error_msgs) ==
    LET status_code == find_either(doc, ns_data, ns_dian, "StatusCode")
        status_desc == find_either(doc, ns_data, ns_dian, "StatusDescription")
        status_msgs == findall_either(doc, ns_data, ns_dian, "StatusMessage")
        FieldOf(e) == IF e.text = NoText THEN Unset ELSE Filled(<<e.text.str>>)
    IN  [rsp EXCEPT
            !.status_code = IF status_code # NoElement THEN FieldOf(status_code) ELSE @,
            !.status_description =
                IF status_desc # NoElement THEN FieldOf(status_desc) ELSE @,
            !.status_message =
                IF status_msgs # <<>> THEN Filled(join(texts(status_msgs))) ELSE @,
            !.error_messages =
                IF error_msgs # <<>> THEN Filled(texts(error_msgs)) ELSE @]

\* IsValid and what follows it; is_valid.text.lower() of an element without
\* text raises AttributeError, which except Exception: pass swallows, and the
\* rsp is returned as it is then.
from_is_valid(rsp, doc, ns_data, ns_dian, error_msgs) ==
    LET is_valid == find_either(doc, ns_data, ns_dian, "IsValid")
    IN  IF is_valid = NoElement
        THEN status_fields(rsp, doc, ns_data, ns_dian, error_msgs)
        ELSE IF is_valid.text = NoText THEN rsp
        ELSE status_fields(
                 [rsp EXCEPT !.is_valid = Filled(bool(lower_is_true(is_valid.text)))],
                 doc, ns_data, ns_dian, error_msgs)

\* The ZipKey of _parse_send_test_set_response and of _parse_response.
with_zip_key(rsp, doc) ==
    LET zip_key == find_either(doc, "upload", "dian", "ZipKey")
    IN  IF zip_key # NoElement /\ zip_key.text # NoText
        THEN [rsp EXCEPT !.zip_key = Filled(<<zip_key.text.str>>)]
        ELSE rsp

parse_send_test_set_response(doc) ==
    LET rsp == with_zip_key(DianResponse, doc)
        error_list == findall_elements(doc, <<"dian", "string">>)
    IN  IF error_list # <<>>
        THEN [rsp EXCEPT !.error_messages = Filled(texts(error_list))]
        ELSE rsp

parse_status_response(doc) ==
    from_is_valid(DianResponse, doc, "resp", "dian",
                  findall_either(doc, "resp", "dian", "ErrorMessage"))

\* DianClient._parse_response: the error strings are ErrorMessage under
\* resp, under dian, or string under dian.
parse_response(doc) ==
    LET error_msgs == findall_either(doc, "resp", "dian", "ErrorMessage")
    IN  from_is_valid(with_zip_key(DianResponse, doc), doc, "resp", "dian",
                      IF error_msgs # <<>> THEN error_msgs
                      ELSE findall_elements(doc, <<"dian", "string">>))

\* The responses: of each field no element, or an element under one of its
\* namespaces, with a text or empty.
FieldElement(ns, name, text) == <<Element(<<ns, name>>, <<>>, text, <<>>)>>
ZipKeyElements ==
    {<<>>, FieldElement("upload", "ZipKey", Text("zk1")),
     FieldElement("dian", "ZipKey", Text("zk1")), FieldElement("upload", "ZipKey", NoText)}
IsValidElements ==
    {<<>>, FieldElement("resp", "IsValid", Text("true")),
     FieldElement("dian", "IsValid", Text("False")), FieldElement("resp", "IsValid", NoText)}
StatusCodeElements ==
    {<<>>, FieldElement("resp", "StatusCode", Text("00")),
     FieldElement("dian", "StatusCode", Text("99"))}
StatusDescriptionElements ==
    {<<>>, FieldElement("resp", "StatusDescription", Text("Procesado Correctamente.")),
     FieldElement("dian", "StatusDescription", Text("Validacion contiene errores"))}
StatusMessageElements ==
    {<<>>, FieldElement("resp", "StatusMessage", Text("m1")),
     FieldElement("dian", "StatusMessage", Text("m1"))
         \o FieldElement("dian", "StatusMessage", Text("m2")),
     FieldElement("resp", "StatusMessage", NoText)}
ErrorElements ==
    {<<>>, FieldElement("resp", "ErrorMessage", Text("Regla: FAD06")),
     FieldElement("dian", "ErrorMessage", Text("Regla: FAD06")),
     FieldElement("dian", "string", Text("Regla: FAD06")),
     FieldElement("upload", "string", Text("Regla: FAD06"))}
Responses ==
    {Element(<<"soap", "Envelope">>, <<>>, NoText,
         <<Element(<<"soap", "Body">>, <<>>, NoText, zk \o iv \o sc \o sd \o sm \o er)>>) :
        zk \in ZipKeyElements, iv \in IsValidElements, sc \in StatusCodeElements,
        sd \in StatusDescriptionElements, sm \in StatusMessageElements,
        er \in ErrorElements}

NoParsed == [parser |-> "", response |-> DianResponse]

\* One call of a parser on a response; a call keeps nothing, so a behaviour
\* makes one call.
_parse_send_test_set_response ==
    \E doc \in Responses :
        /\ xml_response = NoElement
        /\ xml_response' = doc
        /\ parsed' = [parser |-> "_parse_send_test_set_response",
                      response |-> parse_send_test_set_response(doc)]
        /\ UNCHANGED <<trackerVars, clientVars, signVars, identVars, utilVars, scriptVars>>
_parse_status_response ==
    \E doc \in Responses :
        /\ xml_response = NoElement
        /\ xml_response' = doc
        /\ parsed' = [parser |-> "_parse_status_response",
                      response |-> parse_status_response(doc)]
        /\ UNCHANGED <<trackerVars, clientVars, signVars, identVars, utilVars, scriptVars>>
_parse_response ==
    \E doc \in Responses :
        /\ xml_response = NoElement
        /\ xml_response' = doc
        /\ parsed' = [parser |-> "_parse_response", response |-> parse_response(doc)]
        /\ UNCHANGED <<trackerVars, clientVars, signVars, identVars, utilVars, scriptVars>>

InitParse == xml_response = NoElement /\ parsed = NoParsed
NextParse ==
    \/ _parse_send_test_set_response
    \/ _parse_status_response
    \/ _parse_response

(***************************************************************************)
(* builders/exceptions.py: the exception classes and create_dian_exception. *)
(* A message is the sequence of the pieces an f-string concatenates, in     *)
(* order; an exception is the record of its class name and its attributes   *)
(* message, code, status_code and dian_errors (status_code is None and      *)
(* dian_errors empty for the classes outside DianError).                    *)
(***************************************************************************)
KnownErrorCodes ==
    {"ZE01", "ZE02", "ZE03", "ZE04", "ZE05", "ZE06", "FAB01", "FAC01", "FAC02", "FAC04",
     "FAC05", "FAN01", "FAN03", "NCB01", "NCB02", "NDB01", "NDB02"}

DIAN_ERROR_CODES ==
    [c \in KnownErrorCodes |->
        CASE c = "ZE01" -> "Firma no encontrada"
          [] c = "ZE02" -> "Firma digital invalida"
          [] c = "ZE03" -> "Certificado no valido"
          [] c = "ZE04" -> "Certificado expirado"
          [] c = "ZE05" -> "Certificado revocado"
          [] c = "ZE06" -> "Certificado no corresponde al emisor"
          [] c = "FAB01" -> "XML mal formado"
          [] c = "FAC01" -> "CUFE invalido"
          [] c = "FAC02" -> "Totales no cuadran"
          [] c = "FAC04" -> "CUDE invalido"
          [] c = "FAC05" -> "CUDS invalido"
          [] c = "FAN01" -> "Numero de factura duplicado"
          [] c = "FAN03" -> "Resolucion vencida"
          [] c \in {"NCB01", "NDB01"} -> "Factura referenciada no existe"
          [] c \in {"NCB02", "NDB02"} -> "CUFE de factura referenciada invalido"]

FachoError(type, message, code, status_code, dian_errors) ==
    [type |-> type, message |-> message, code |-> code, status_code |-> status_code,
     dian_errors |-> dian_errors]

ValidationError(type, message, code) == FachoError(type, message, code, None, <<>>)

SignatureError(type, message) == FachoError(type, message, "SIGNATURE_ERROR", None, <<>>)

CertificateError(type, message) ==
    [SignatureError(type, message) EXCEPT !.code = "CERTIFICATE_ERROR"]

DianError(type, message, status_code, dian_errors) ==
    FachoError(type, message, "DIAN_ERROR", status_code, dian_errors)

CufeError(message) == FachoError("CufeError", message, "CUFE_ERROR", None, <<>>)

CertificateExpiredError(message) ==
    [CertificateError("CertificateExpiredError", message) EXCEPT !.code = "ZE04"]

CertificateRevokedError(message) ==
    [CertificateError("CertificateRevokedError", message) EXCEPT !.code = "ZE05"]

DuplicateInvoiceError(invoice_number) ==
    DianError("DuplicateInvoiceError", <<"Factura ", invoice_number, " ya existe en DIAN">>,
              "FAN01", <<<<"Documento duplicado: ", invoice_number>>>>)

ResolutionExpiredError(resolution_number, end_date) ==
    ValidationError("ResolutionExpiredError",
                    <<"Resolucion ", resolution_number, " vencio el ", end_date>>, "FAN03")

ReferenceNotFoundError(invoice_number, doc_type) ==
    DianError("ReferenceNotFoundError",
              <<"Factura referenciada ", invoice_number, " no existe en DIAN">>,
              IF doc_type = "nota credito" THEN "NCB01" ELSE "NDB01",
              <<<<"Factura referenciada no existe: ", invoice_number>>>>)

TotalsValidationError(field) ==
    ValidationError("TotalsValidationError", <<"Totales no cuadran: ", field>>, "FAC02")

create_dian_exception(error_code, message) ==
    LET description == IF error_code \in KnownErrorCodes
                       THEN <<DIAN_ERROR_CODES[error_code]>>
                       ELSE <<"Error DIAN: ", error_code>>
        full_message == IF message \notin {None, ""}
                        THEN description \o <<": ", message>>
                        ELSE description
    IN  CASE error_code = "ZE04" -> CertificateExpiredError(full_message)
          [] error_code = "ZE05" -> CertificateRevokedError(full_message)
          [] error_code \in {"ZE01", "ZE02", "ZE03", "ZE06"} ->
                 SignatureError("SignatureError", full_message)
          [] error_code = "FAN01" -> DuplicateInvoiceError("")
          [] error_code = "FAN03" -> ResolutionExpiredError("", "")
          [] error_code \in {"NCB01", "NCB02", "NDB01", "NDB02"} ->
                 ReferenceNotFoundError("", "nota credito")
          [] error_code \in {"FAC01", "FAC04", "FAC05"} -> CufeError(full_message)
          [] error_code = "FAC02" -> TotalsValidationError("total")
          [] OTHER -> DianError("DianError", full_message, error_code, <<>>)

ErrorCodes == KnownErrorCodes \cup {"ZZ99"}
ErrorMessages == {None, "", "Certificado vencido", "Regla: FAD06, Rechazo: fecha"}
NoErrorCall == [error_code |-> None, message |-> None]
NoException == FachoError(None, <<>>, None, None, <<>>)

_create_dian_exception(error_code, message) ==
    /\ error_call = NoErrorCall
    /\ error_call' = [error_code |-> error_code, message |-> message]
    /\ dian_exception' = create_dian_exception(error_code, message)
    /\ UNCHANGED <<trackerVars, clientVars, signVars, identVars, parseVars,
                   client_config, client_endpoint, scriptVars>>

InitErrors == error_call = NoErrorCall /\ dian_exception = NoException

(***************************************************************************)
(* The endpoint a client talks to: DianSimpleClient.__init__ and            *)
(* DianClient.__init__ compare the environment with 'habilitacion';         *)
(* get_endpoint of builders/soap_client.py looks its lower case up in the   *)
(* production names.  The two URLs are the same in the three modules.       *)
(***************************************************************************)
ENDPOINT_HABILITACION == "ENDPOINT_HABILITACION"
ENDPOINT_PRODUCCION == "ENDPOINT_PRODUCCION"

Environments ==
    {"habilitacion", "produccion", "production", "1", "2", "Habilitacion", "HABILITACION",
     "PRODUCCION", "pruebas", "habilitacion ", "test", ""}

\* str.lower on the environments of the model
lower(environment) ==
    CASE environment \in {"Habilitacion", "HABILITACION"} -> "habilitacion"
      [] environment = "PRODUCCION" -> "produccion"
      [] OTHER -> environment

client_init(environment) ==
    IF environment = "habilitacion" THEN ENDPOINT_HABILITACION ELSE ENDPOINT_PRODUCCION

get_endpoint(environment) ==
    IF lower(environment) \in {"produccion", "production", "1"}
    THEN ENDPOINT_PRODUCCION
    ELSE ENDPOINT_HABILITACION

NoClient == [fn |-> None, environment |-> None, raised |-> None]

\* DianSimpleClient(certificate_path=..., environment=...): ValueError without a
\* certificate, before the endpoint is chosen.
DianSimpleClient(has_certificate, environment) ==
    /\ client_config = NoClient
    /\ client_config' = [fn |-> "DianSimpleClient", environment |-> environment,
                         raised |-> IF has_certificate THEN None ELSE "ValueError"]
    /\ client_endpoint' = IF has_certificate THEN client_init(environment) ELSE None
    /\ UNCHANGED <<trackerVars, clientVars, signVars, identVars, parseVars,
                   error_call, dian_exception, scriptVars>>

\* dian_fe: DianClient(certificate_path=..., environment=...), the same constructor
DianClient(has_certificate, environment) ==
    /\ client_config = NoClient
    /\ client_config' = [fn |-> "DianClient", environment |-> environment,
                         raised |-> IF has_certificate THEN None ELSE "ValueError"]
    /\ client_endpoint' = IF has_certificate THEN client_init(environment) ELSE None
    /\ UNCHANGED <<trackerVars, clientVars, signVars, identVars, parseVars,
                   error_call, dian_exception, scriptVars>>

_get_endpoint(environment) ==
    /\ client_config = NoClient
    /\ client_config' = [fn |-> "get_endpoint", environment |-> environment,
                         raised |-> None]
    /\ client_endpoint' = get_endpoint(environment)
    /\ UNCHANGED <<trackerVars, clientVars, signVars, identVars, parseVars,
                   error_call, dian_exception, scriptVars>>

InitEndpoints == client_config = NoClient /\ client_endpoint = None

NextSupport ==
    \/ \E c \in ErrorCodes, m \in ErrorMessages : _create_dian_exception(c, m)
    \/ \E h \in BOOLEAN, e \in Environments : DianSimpleClient(h, e)
    \/ \E h \in BOOLEAN, e \in Environments : DianClient(h, e)
    \/ \E e \in Environments : _get_endpoint(e)

(***************************************************************************)
(* The submission pipeline: one run of the script after the other, and     *)
(* direct calls of the client.                                             *)
(***************************************************************************)
InitTracker ==
    /\ file \in {NoFile, InvalidFile}
    /\ data = [t \in Trackers |-> _load(file)]
    /\ returned = [t \in Trackers |-> <<>>]
    /\ added = [t \in Trackers |-> {}]

InitClient ==
    /\ pc = "start"
    /\ caller = "none"
    /\ verify = TRUE
    /\ doc_number = <<"", 0>>
    /\ track_id = None
    /\ wait_seconds = 0
    /\ max_retries = 0
    /\ attempt = 0
    /\ response = NoResponse
    /\ log = <<>>
    /\ outcome = NoOutcome
    /\ result = NoResult

Init ==
    /\ InitTracker /\ InitClient /\ InitSign /\ InitIdentifiers /\ InitParse
    /\ InitErrors /\ InitEndpoints /\ InitVerify /\ InitSaving

Next ==
    \/ main
    \/ \E v \in BOOLEAN, b \in StepOutcomes, g \in StepOutcomes : process_invoice(v, b, g)
    \/ \E v \in BOOLEAN, b \in StepOutcomes, g \in StepOutcomes : process_credit_note(v, b, g)
    \/ \E v \in BOOLEAN, b \in StepOutcomes, g \in StepOutcomes : process_debit_note(v, b, g)
    \/ \E o \in SendOutcomes : send(o)
    \/ \E zk \in ZipKeys, w \in WaitSeconds, mr \in 0..MaxRetriesArg :
           verify_status_with_retry(zk, w, mr)
    \/ \E o \in PollOutcomes : poll(o)

Spec == Init /\ [][Next]_vars

(***************************************************************************)
(* The tracker driven through its own interface.  TrackerCalls(T) are the  *)
(* calls on the trackers of T, every one of them opened on the one         *)
(* tracking file; DocumentTracker(t) opens t again from the file.          *)
(***************************************************************************)
DocNumbers == {<<"SETP", 1>>, <<"SETP", 2>>}

\* The documents given to add_document: built, as process_invoice builds
\* them, from a send_and_verify result: no ZipKey and no flag, or a ZipKey
\* and any flag.
Documents ==
    {TrackedDocument(ty, n, r[1], r[2]) :
        ty \in DocTypes, n \in DocNumbers,
        r \in {<<None, None>>} \cup (ZipKeys \X Validity)}

\* Two pipeline instances, each with its own DocumentTracker on the same file.
NextNumbering ==
    \E t \in Trackers :
        \/ /\ DocumentTracker_open(t)
           /\ UNCHANGED <<clientVars, signVars, identVars, parseVars, utilVars, verifyVars>>
        \/ /\ \E pf \in Prefixes \cup {None}, sc \in StartConsecutives :
                 set_config_enter(t, pf, sc)
           /\ UNCHANGED <<clientVars, signVars, identVars, parseVars, utilVars, verifyVars>>
        \/ /\ Len(returned[t]) < MaxReturned
           /\ get_next_consecutive_enter(t)
           /\ UNCHANGED <<clientVars, signVars, identVars, parseVars, utilVars, verifyVars>>
        \/ /\ clear_enter(t)
           /\ UNCHANGED <<clientVars, signVars, identVars, parseVars, utilVars, verifyVars>>
        \/ /\ save_return(t)
           /\ UNCHANGED <<clientVars, signVars, identVars, parseVars, utilVars, verifyVars>>

SpecNumbering == Init /\ [][NextNumbering]_vars

\* One tracker, the only writer of its file, through the whole of its interface.
NextRecords ==
    \E t \in {Pipeline} :
        \/ DocumentTracker(t) /\ UNCHANGED <<clientVars, libVars>>
        \/ /\ \E pf \in Prefixes : set_config(t, pf, <<>>)
           /\ UNCHANGED <<clientVars, libVars>>
        \/ /\ Len(returned[t]) < MaxReturned
           /\ get_next_consecutive(t)
           /\ UNCHANGED <<clientVars, libVars>>
        \/ /\ Len(all_docs(data[t])) < MaxDocs
           /\ \E doc \in Documents : add_document(t, doc)
           /\ UNCHANGED <<clientVars, libVars>>
        \/ /\ \E n \in DocNumbers, v \in Validity, zk \in ZipKeys \cup {None} :
                 update_status(t, n, v, zk)
           /\ UNCHANGED <<clientVars, libVars>>
        \/ clear(t) /\ UNCHANGED <<clientVars, libVars>>

SpecRecords == Init /\ [][NextRecords]_vars

\* Calls of XAdESSigner.sign, one after the other.
SpecSign == Init /\ [][NextSign]_vars

\* One call of a response parser.
SpecParse == Init /\ [][NextParse]_vars

\* One call of an identifier function.
SpecIdentifiers == Init /\ [][NextIdentifiers]_vars

\* One call of each of the two signers.
NextSigners == NextSign \/ NextSoap
SpecSigners == Init /\ [][NextSigners]_vars

\* The script's tracker filled by add_document and then brought up to date by
\* verify_pending_documents; the records carry the ZipKey of their own send.
SentDocuments ==
    {TrackedDocument(ty, n, zk, v) :
        ty \in DocTypes, n \in DocNumbers, zk \in RecordKeys, v \in Validity}

NextVerify ==
    \/ /\ pending_docs = <<>>
       /\ Len(all_docs(data[Pipeline])) < MaxDocs
       /\ \E doc \in SentDocuments : add_document(Pipeline, doc)
       /\ UNCHANGED <<clientVars, libVars>>
    \/ /\ verify_pending_documents(Pipeline)
       /\ UNCHANGED <<clientVars, signVars, identVars, parseVars, utilVars, saveVars>>
    \/ /\ \E is_valid \in Answers : verify_pending_documents_loop(Pipeline, is_valid)
       /\ UNCHANGED <<clientVars, signVars, identVars, parseVars, utilVars, saveVars>>

SpecVerify == Init /\ [][NextVerify]_vars

\* create_dian_exception and the construction of a client, called directly
SpecSupport == Init /\ [][NextSupport]_vars

(***************************************************************************)
(* Claims about verify_status_with_retry.                                  *)
(***************************************************************************)
Definitive == {"True", "False"}
BudgetUsed == pc # "polling" /\ max_retries >= 1 /\ Len(Polls(log)) = max_retries
NoVerdict == \A i \in 1..Len(log) : log[i] \notin Definitive

\* C2: for max_retries >= 1 the call issues at most max_retries polls (3 when
\* send_and_verify calls it), and a poll whose response carries a validity
\* flag is the last thing the call does: that response is returned.
C2_BoundedPollsStopAtVerdict ==
    /\ max_retries >= 1 => Len(Polls(log)) <= max_retries
    /\ pc = "polling" /\ caller \in ProcessFunctions => max_retries = 3
    /\ \A i \in 1..Len(log) :
          log[i] \in Definitive =>
             /\ i = Len(log)
             /\ pc # "polling"
             /\ outcome = Return(GetStatusZipResponse(log[i]))

C2_Witness ==
    /\ pc = "idle" /\ caller = "direct" /\ max_retries = 3
    /\ Polls(log) = <<"None", "True">>
    /\ outcome = Return(GetStatusZipResponse("True"))

\* C3: when every one of the max_retries polls returns a response without a
\* validity flag, the call returns that Pending response and raises nothing;
\* send_and_verify then reports the ZipKey, the status response and no error.
C3_AllPendingReturnsPending ==
    (BudgetUsed /\ \A i \in 1..Len(Polls(log)) : Polls(log)[i] = "None") =>
        /\ outcome = Return(GetStatusZipResponse(None))
        /\ outcome.kind = "return" /\ outcome.exc = None
        /\ caller \in ProcessFunctions =>
              /\ result.zip_key = track_id
              /\ result.status_response
              /\ result.is_valid = None
              /\ result.error = None

C3_Witness ==
    /\ pc = "idle" /\ caller = "process_invoice" /\ max_retries = 3
    /\ Polls(log) = <<"None", "None", "None">>
    /\ outcome.kind = "return" /\ result.zip_key = "zk1"

\* C4 as claimed: when the poll budget is used up without a verdict and at
\* least one poll failed with a transport exception, the call raises it.
C4_Original ==
    (/\ BudgetUsed /\ NoVerdict
     /\ \A i \in 1..Len(log) : log[i] # "Exception"
     /\ \E i \in 1..Len(log) : log[i] = "RequestException")
    => outcome = Raise("RequestException")

\* C4 as amended: when the poll budget is used up without a verdict, the call
\* raises the transport exception exactly when the final poll failed with one;
\* when the final poll returned a response without a validity flag, the call
\* returns that response, whatever failures came before.
C4_RaisesIffFinalPollFailed ==
    (BudgetUsed /\ NoVerdict) =>
        /\ Last(Polls(log)) = "RequestException" => outcome = Raise("RequestException")
        /\ Last(Polls(log)) = "None" => outcome = Return(GetStatusZipResponse(None))

C4_Witness ==
    /\ pc = "idle" /\ max_retries = 3
    /\ Polls(log) = <<"RequestException", "None", "RequestException">>
    /\ outcome = Raise("RequestException")

\* C5: a transport failure on a poll that is not the last permitted one is
\* followed by a wait and a further poll, and a transport exception reaches
\* the caller only from the last permitted poll.
C5_TransportFailureRetried ==
    /\ \A i \in 1..Len(log) :
          (log[i] = "RequestException" /\ Len(Polls(SubSeq(log, 1, i))) < max_retries) =>
             /\ i < Len(log)
             /\ log[i + 1] = "sleep"
             /\ pc = "polling" \/ i + 1 < Len(log)
    /\ outcome = Raise("RequestException") =>
          /\ Last(log) = "RequestException"
          /\ Len(Polls(log)) = max_retries

C5_Witness ==
    /\ pc = "idle" /\ max_retries = 3
    /\ Polls(log) = <<"RequestException", "True">>
    /\ outcome = Return(GetStatusZipResponse("True"))

(***************************************************************************)
(* Claims about the pipeline.                                              *)
(***************************************************************************)
InSeq(x, q) == \E i \in 1..Len(q) : q[i] = x

\* C6: when the send yielded a ZipKey and the verification ended without a
\* verdict (every poll failed or was Pending), send_and_verify reports the
\* ZipKey with is_valid None, and the record process_invoice adds is among
\* get_pending_documents and not among get_failed_documents.
C6_SentUnverifiedIsPending ==
    (/\ pc = "idle" /\ caller = "process_invoice"
     /\ result.zip_key \in ZipKeys
     /\ ~(outcome.kind = "return" /\ outcome.is_valid \in Definitive))
    => /\ result.is_valid = None
       /\ Len(data[Pipeline].facturas) > 0
       /\ LET doc == Last(data[Pipeline].facturas)
          IN  /\ doc.number = doc_number
              /\ doc.zip_key = result.zip_key
              /\ InSeq(doc, get_pending_documents(data[Pipeline]))
              /\ ~InSeq(doc, get_failed_documents(data[Pipeline]))
              /\ InSeq(doc, get_pending_documents(_load(file)))

C6_Witness ==
    /\ pc = "idle" /\ caller = "process_invoice"
    /\ result.zip_key = "zk1" /\ result.error = "RequestException"
    /\ Polls(log) = <<"None", "RequestException", "RequestException">>

\* C8: every consecutive number allocated from the tracker belongs to a
\* document that was sent and recorded, whatever the outcome of building,
\* signing or sending it.
C8_NoAllocatedNumberSkipped ==
    pc \in {"idle", "aborted"} =>
        \A i \in 1..Len(returned[Pipeline]) :
            \E j \in 1..Len(all_docs(_load(file))) :
                all_docs(_load(file))[j].number[2] = returned[Pipeline][i]

(***************************************************************************)
(* Claims about the tracker.                                               *)
(***************************************************************************)
\* C1: two trackers opened on the same tracking file never return the same
\* consecutive number, in any interleaving of their calls.
C1_NoNumberReturnedTwice ==
    \A i \in 1..Len(returned["p1"]) :
        \A j \in 1..Len(returned["p2"]) :
            returned["p1"][i] # returned["p2"][j]

ListNames == {"facturas", "notas_credito", "notas_debito"}

\* The three lists of new are those of old.
SameRecords(old, new) == \A L \in ListNames : new[L] = old[L]

\* One list of new is that list of old with one record appended, of the type
\* the list is for; the other two lists are those of old.
ListOf(doc_type) ==
    CASE doc_type = "factura" -> "facturas"
      [] doc_type = "credito" -> "notas_credito"
      [] OTHER -> "notas_debito"

AppendedOne(old, new) ==
    \E L \in ListNames :
        /\ Len(new[L]) = Len(old[L]) + 1
        /\ SubSeq(new[L], 1, Len(old[L])) = old[L]
        /\ ListOf(new[L][Len(new[L])].doc_type) = L
        /\ \A M \in ListNames \ {L} : new[M] = old[M]

\* One record of new differs from the record at its place in old, in its
\* verdict or its ZipKey only; every other record is the one of old.
UpdatedOneInPlace(old, new) ==
    \E L \in ListNames :
        /\ Len(new[L]) = Len(old[L])
        /\ \A M \in ListNames \ {L} : new[M] = old[M]
        /\ \E i \in 1..Len(old[L]) :
               /\ new[L][i].number = old[L][i].number
               /\ new[L][i].doc_type = old[L][i].doc_type
               /\ \A j \in 1..Len(old[L]) : j # i => new[L][j] = old[L][j]

\* C7 as claimed: a record is never deleted: every document given to
\* add_document is still in the tracker and in its file.
C7_Original ==
    \A n \in added[Pipeline] :
        /\ HasNumber(all_docs(data[Pipeline]), n)
        /\ HasNumber(all_docs(_load(file)), n)

\* C7 as amended: for a tracker that is the only writer of its tracking
\* file, clear() is the only operation that removes records.  A clear()
\* leaves no record in the tracker and none in the file.  Every other step
\* leaves the records as they are, appends one record to the list of its
\* type, or updates one record in place; and the file it writes holds the
\* records of the tracker.
C7_OnlyClearRemoves ==
    [][IF clear(Pipeline)
       THEN /\ all_docs(data'[Pipeline]) = <<>>
            /\ all_docs(_load(file')) = <<>>
       ELSE /\ \/ SameRecords(data[Pipeline], data'[Pipeline])
               \/ AppendedOne(data[Pipeline], data'[Pipeline])
               \/ UpdatedOneInPlace(data[Pipeline], data'[Pipeline])
            /\ file' # file => all_docs(_load(file')) = all_docs(data'[Pipeline])]_vars

C7_Witness ==
    /\ Len(data[Pipeline].facturas) = 2
    /\ data[Pipeline].facturas[1].is_valid = "True"
    /\ data[Pipeline].facturas[2].is_valid = "None"
    /\ all_docs(_load(file)) = all_docs(data[Pipeline])

\* C9: get_next_consecutive has written the incremented counter to the file
\* when it returns the number, and a tracker opened from the file at any
\* later time never returns a number that was handed out before: the
\* counter it loads, after which it goes on, is below none of them.
C9_ReopenedNeverRepeats ==
    [][/\ \A t \in Trackers :
             returned'[t] # returned[t] =>
                /\ file'.kind = "json"
                /\ file'.json.last_consecutive = Last(returned'[t])
       /\ \A t \in Trackers : \A i \in 1..Len(returned'[t]) :
             returned'[t][i] <= _load(file').last_consecutive]_vars

(***************************************************************************)
(* Claims about the signer.                                                *)
(***************************************************************************)
\* C10: sign() on a document with fewer than two ExtensionContent containers
\* fails with XmlBuildError.
C10_FewerThanTwoRaisesXmlBuildError ==
    (xml_element # NoElement /\ Len(findall(xml_element, ExtensionContentTag)) < 2)
        => sign_raised = "XmlBuildError"

\* The call of sign() has been made and it returned / raised.
SignReturned == xml_element # NoElement /\ sign_raised = None
SignFailed == xml_element # NoElement /\ sign_raised # None

\* Every text of e's subtree.
RECURSIVE HasText(_, _)
HasText(e, text) ==
    \/ e.text = text
    \/ \E i \in 1..Len(e.children) : HasText(e.children[i], text)

\* parent.remove(child) for the child at path.
RECURSIVE Remove(_, _)
Remove(e, path) ==
    IF Len(path) = 1
    THEN [e EXCEPT !.children =
             [i \in 1..(Len(@) - 1) |-> IF i < path[1] THEN @[i] ELSE @[i + 1]]]
    ELSE [e EXCEPT !.children[Head(path)] = Remove(@, Tail(path))]

\* The Signature of the signed tree and the parts the claims speak of.
TheSignature == Find(invoice, <<"ds", "Signature">>)
\* The inclusive canonical form of the first element of doc with the tag.
InclusiveC14N(doc, tag) == tostring_c14n(doc, findall(doc, tag)[1], FALSE, <<>>)
DigestOfReference(n) ==
    LET si == Find(TheSignature, <<"ds", "SignedInfo">>)
        ref == ElementAt(si, findall(si, <<"ds", "Reference">>)[n])
    IN  Find(ref, <<"ds", "DigestValue">>).text

\* C11: when sign() fails for want of a second ExtensionContent container,
\* the tree of the document is exactly the tree it was given: nothing has
\* been added or changed.
C11_FailedSignLeavesTree == SignFailed => invoice = xml_element

C11_Witness ==
    /\ SignFailed
    /\ Len(findall(xml_element, ExtensionContentTag)) = 1
    /\ Len(findall(xml_element, ForeignContentTag)) = 1
    /\ invoice = xml_element

\* C12: when sign() returns, the digests of Reference 2 and Reference 3 are
\* those of the KeyInfo and the SignedProperties of the returned tree, no
\* placeholder is left in the Signature, and the SignatureValue is the
\* signature of the SignedInfo of the returned tree: SignedInfo was signed
\* after both digests were in place and nothing changed afterwards.
C12_SignedInfoSignedLast ==
    SignReturned =>
        /\ DigestOfReference(2) = sha256_digest(InclusiveC14N(invoice, <<"ds", "KeyInfo">>))
        /\ DigestOfReference(3) =
               sha256_digest(InclusiveC14N(invoice, <<"xades", "SignedProperties">>))
        /\ ~HasText(TheSignature, PLACEHOLDER)
        /\ Find(TheSignature, <<"ds", "SignatureValue">>).text =
               rsa_sign("key", InclusiveC14N(invoice, <<"ds", "SignedInfo">>))

C12_Witness ==
    /\ SignReturned
    /\ Len(findall(TheSignature, <<"ds", "X509Certificate">>)) = 2
    /\ DigestOfReference(2).kind = "sha256"
    /\ DigestOfReference(3).kind = "sha256"

\* C13: after sign(), the tree with the inserted Signature removed has the
\* same inclusive canonical form digest as Reference 1 holds, which is the
\* digest of the tree before the call.
C13_Reference1RoundTrip ==
    SignReturned =>
        /\ sha256_digest(tostring_c14n(Remove(invoice, findall(invoice, <<"ds", "Signature">>)[1]),
                                       <<>>, FALSE, <<>>))
               = DigestOfReference(1)
        /\ DigestOfReference(1) = sha256_digest(tostring_c14n(xml_element, <<>>, FALSE, <<>>))

C13_Witness ==
    /\ SignReturned
    /\ Len(ElementAt(xml_element, findall(xml_element, ExtensionContentTag)[2]).children) = 1
    /\ Remove(invoice, findall(invoice, <<"ds", "Signature">>)[1]) = xml_element

\* C14: after sign(), the one Signature element of the tree is the last
\* child of the second ExtensionContent container, and its children are
\* SignedInfo, SignatureValue, KeyInfo, Object, in this order.
C14_SignatureInSecondContainer ==
    SignReturned =>
        LET second == findall(xml_element, ExtensionContentTag)[2]
            container == ElementAt(invoice, second)
        IN  /\ findall(invoice, ExtensionContentTag)[2] = second
            /\ findall(invoice, <<"ds", "Signature">>) = << second \o <<Len(container.children)>> >>
            /\ [i \in 1..Len(TheSignature.children) |-> TheSignature.children[i].tag]
                   = << <<"ds", "SignedInfo">>, <<"ds", "SignatureValue">>,
                        <<"ds", "KeyInfo">>, <<"ds", "Object">> >>

C14_Witness ==
    /\ SignReturned
    /\ Len(findall(xml_element, ExtensionContentTag)) = 3
    /\ findall(xml_element, ExtensionContentTag)[2] = <<1, 2, 1>>
    /\ Len(ElementAt(invoice, <<1, 2, 1>>).children) = 2
    /\ ElementAt(invoice, <<1, 2, 1, 2>>).tag = <<"ds", "Signature">>

\* The value of the attribute of e with the name, None if e has none.
AttrValue(e, name) ==
    LET at == {i \in 1..Len(e.attrs) : e.attrs[i].name = name}
    IN  IF at = {} THEN <<None>> ELSE e.attrs[CHOOSE i \in at : TRUE].value

\* Every element of doc below its root, by path, and those an URI names:
\* the elements with an Id or wsu:Id attribute of that value.
RECURSIVE Descendants(_)
Descendants(e) ==
    UNION { {<<i>>} \cup {<<i>> \o p : p \in Descendants(e.children[i])} :
            i \in 1..Len(e.children) }
Referenced(doc, uri) ==
    {p \in Descendants(doc) :
        \E i \in 1..Len(ElementAt(doc, p).attrs) :
            LET a == ElementAt(doc, p).attrs[i]
            IN  a.name[2] = "Id" /\ <<"#">> \o a.value = uri}
IsPrefix(p, q) == Len(p) <= Len(q) /\ SubSeq(q, 1, Len(p)) = p

EnvelopeBuilt == envelope # NoElement
TimestampPath == findall(envelope, <<"wsu", "Timestamp">>)[1]
ToPath == findall(envelope, <<"wsa", "To">>)[1]
BodyPath == findall(envelope, <<"soap", "Body">>)[1]
SoapSignedInfoPath == findall(envelope, <<"ds", "SignedInfo">>)[1]
SoapReferences ==
    LET si == ElementAt(envelope, SoapSignedInfoPath)
        refs == findall(si, <<"ds", "Reference">>)
    IN  [i \in 1..Len(refs) |-> ElementAt(si, refs[i])]
URI(ref) == AttrValue(ref, <<"", "URI">>)
PrefixList(e) == AttrValue(Find(e, <<"ec", "InclusiveNamespaces">>), <<"", "PrefixList">>)

\* C15: in a built envelope SignedInfo has exactly two References; the first
\* names the wsu:Id of the Timestamp of that envelope and the second the
\* wsu:Id of its wsa:To, each URI names that one element only, and no
\* Reference names the Body or an element inside it.
C15_TwoReferencesTimestampAndTo ==
    EnvelopeBuilt =>
        /\ Len(SoapReferences) = 2
        /\ URI(SoapReferences[1]) =
               <<"#">> \o AttrValue(ElementAt(envelope, TimestampPath), <<"wsu", "Id">>)
        /\ URI(SoapReferences[2]) =
               <<"#">> \o AttrValue(ElementAt(envelope, ToPath), <<"wsu", "Id">>)
        /\ Referenced(envelope, URI(SoapReferences[1])) = {TimestampPath}
        /\ Referenced(envelope, URI(SoapReferences[2])) = {ToPath}
        /\ \A i \in 1..Len(SoapReferences) :
               \A p \in Referenced(envelope, URI(SoapReferences[i])) : ~IsPrefix(BodyPath, p)

C15_Witness ==
    /\ EnvelopeBuilt
    /\ ElementAt(envelope, BodyPath).children[1].tag = <<"wcf", "SendTestSetAsync">>
    /\ URI(SoapReferences[1]) = <<"#", "TS", "0a1b2c3d">>
    /\ URI(SoapReferences[2]) = <<"#", "id-TO", "0a1b2c3d">>
    /\ TimestampPath = <<1, 1, 1>>
    /\ ToPath = <<1, 3>>

\* The digest a verifier computes for a Reference of the envelope: the
\* element the URI names, canonicalised exclusively with the PrefixList the
\* Reference declares.
DeclaredDigest(ref) ==
    sha256_digest(tostring_c14n(envelope,
                                CHOOSE p \in Referenced(envelope, URI(ref)) : TRUE,
                                TRUE, PrefixList(ref)))
InclusiveDigest(doc, path) == sha256_digest(tostring_c14n(doc, path, FALSE, <<>>))
ExclusiveDigest(doc, path) == sha256_digest(tostring_c14n(doc, path, TRUE, <<>>))
SignaturePath == findall(invoice, <<"ds", "Signature">>)[1]

\* C16: in a built envelope the References declare the exclusive transform
\* with the prefix lists wsu soap (Timestamp) and wsu soap wsa (To),
\* SignedInfo declares soap wsa, each DigestValue is the digest of the
\* exclusive canonical form under the declared list and the SignatureValue
\* signs the exclusive canonical form of SignedInfo under its list, and none
\* of them is that of the inclusive form.  In a signed invoice SignedInfo
\* declares the inclusive method and the three digests and the
\* SignatureValue are those of the inclusive forms, not of the exclusive ones.
C16_ExclusiveForSoapInclusiveForXades ==
    /\ EnvelopeBuilt =>
        LET si == ElementAt(envelope, SoapSignedInfoPath)
            sig_val == Find(envelope, <<"ds", "SignatureValue">>).text
        IN  /\ PrefixList(SoapReferences[1]) = <<"wsu", "soap">>
            /\ PrefixList(SoapReferences[2]) = <<"wsu", "soap", "wsa">>
            /\ PrefixList(si) = <<"soap", "wsa">>
            /\ \A i \in 1..Len(SoapReferences) :
                 LET ref == SoapReferences[i]
                     target == CHOOSE p \in Referenced(envelope, URI(ref)) : TRUE
                 IN  /\ AttrValue(Find(ref, <<"ds", "Transform">>), <<"", "Algorithm">>)
                            = <<"C14N_EXC_ALG">>
                     /\ Find(ref, <<"ds", "DigestValue">>).text = DeclaredDigest(ref)
                     /\ Find(ref, <<"ds", "DigestValue">>).text
                            # InclusiveDigest(envelope, target)
            /\ AttrValue(Find(si, <<"ds", "CanonicalizationMethod">>), <<"", "Algorithm">>)
                   = <<"C14N_EXC_ALG">>
            /\ sig_val = rsa_sign("key", tostring_c14n(envelope, SoapSignedInfoPath,
                                                       TRUE, PrefixList(si)))
            /\ sig_val # rsa_sign("key", tostring_c14n(envelope, SoapSignedInfoPath,
                                                       FALSE, <<>>))
    /\ SignReturned =>
        LET si == SignaturePath \o si_path
            ki == SignaturePath \o ki_path
            sp == SignaturePath \o sp_path
            sig_val == Find(invoice, <<"ds", "SignatureValue">>).text
        IN  /\ AttrValue(Find(invoice, <<"ds", "CanonicalizationMethod">>),
                         <<"", "Algorithm">>) = <<"C14N_ALG">>
            /\ findall(invoice, <<"ec", "InclusiveNamespaces">>) = <<>>
            /\ DigestOfReference(1) = InclusiveDigest(xml_element, <<>>)
            /\ DigestOfReference(1) # ExclusiveDigest(xml_element, <<>>)
            /\ DigestOfReference(2) = InclusiveDigest(invoice, ki)
            /\ DigestOfReference(2) # ExclusiveDigest(invoice, ki)
            /\ DigestOfReference(3) = InclusiveDigest(invoice, sp)
            /\ DigestOfReference(3) # ExclusiveDigest(invoice, sp)
            /\ sig_val = rsa_sign("key", tostring_c14n(invoice, si, FALSE, <<>>))
            /\ sig_val # rsa_sign("key", tostring_c14n(invoice, si, TRUE, <<>>))

C16_Witness ==
    /\ EnvelopeBuilt
    /\ SignReturned
    /\ Find(SoapReferences[1], <<"ds", "DigestValue">>).text.kind = "sha256"
    /\ PrefixList(SoapReferences[2]) = <<"wsu", "soap", "wsa">>
    /\ DigestOfReference(2) = InclusiveDigest(invoice, SignaturePath \o ki_path)

Called == ident_call # NoCall
LegacyFunctions == {"calcular_cufe", "calcular_cude"}

\* The amount written with two decimals by truncation: 99995 is "99.99".
TwoDecimalsTruncated(value) ==
    LET h == value \div 10
    IN  Digits(h \div 100) \o <<".">> \o Digits((h \div 10) % 10) \o Digits(h % 10)

\* The amounts of the hashed string of a call, written by truncation; the
\* legacy functions have no INC and no ICA and write 0 for them.
AmountsTruncated(call) ==
    LET d == call.data
        legacy == call.fn \in LegacyFunctions
    IN  TwoDecimalsTruncated(d.subtotal) \o <<"01">> \o TwoDecimalsTruncated(d.iva_amount)
        \o <<"04">> \o TwoDecimalsTruncated(IF legacy THEN 0 ELSE d.inc_amount)
        \o <<"03">> \o TwoDecimalsTruncated(IF legacy THEN 0 ELSE d.ica_amount)
        \o TwoDecimalsTruncated(d.total)

\* C17: in the string every identifier function hashes, the amounts stand
\* between the number, date and time and the two party ids, each written
\* with two decimals obtained by truncation.
C17_AmountsTruncatedNotRounded ==
    Called =>
        LET cadena == identifier.bytes
        IN  SubSeq(cadena, 4, Len(cadena) - 4) = AmountsTruncated(ident_call)

\* The call with one field of its data replaced, and its secret replaced:
\* the software_pin where the function takes its secret from it, the
\* technical_key otherwise.
FieldValues ==
    [number |-> NumberValues, issue_date |-> DateValues, issue_time |-> TimeValues,
     subtotal |-> Amounts, iva_amount |-> Amounts, inc_amount |-> Amounts,
     ica_amount |-> Amounts, total |-> Amounts, supplier_nit |-> NitValues,
     customer_nit |-> NitValues, technical_key |-> SecretValues,
     environment |-> EnvironmentValues]
InputFields(call) ==
    DOMAIN FieldValues \
        ((IF call.fn \in LegacyFunctions THEN {"inc_amount", "ica_amount"} ELSE {})
         \cup {"technical_key"})
IdentifierOf(call) == Identifier(call.fn, call.data, call.doc_type_code, call.software_pin)
SecretIsPin(call) ==
    /\ call.software_pin \notin {None, ""}
    /\ \/ call.fn = "calculate_cude"
       \/ call.fn = "calculate_uuid_by_doc_type"
          /\ get_uuid_type(call.doc_type_code) # "CUFE-SHA384"
WithSecret(call, secret) ==
    IF SecretIsPin(call) THEN [call EXCEPT !.software_pin = secret]
    ELSE [call EXCEPT !.data.technical_key = secret]
SecretOf(call) ==
    IF SecretIsPin(call) THEN call.software_pin ELSE call.data.technical_key

\* Two values of a field are another value to the formula of the identifier
\* when they differ, for an amount when they differ to two decimals.
AmountFields == {"subtotal", "iva_amount", "inc_amount", "ica_amount", "total"}
Differ(f, v, w) ==
    IF f \in AmountFields THEN v \div 10 # w \div 10 ELSE v # w

\* C18: the identifier of a call is the one the same function gives for
\* the same field values, and the call with any one field replaced by another
\* value (the number, the date, the time, an amount of another two-decimal
\* value, a party id, the environment, or the secret) has another identifier.
C18_DeterministicAndSensitive ==
    Called =>
        /\ IdentifierOf(ident_call) = identifier
        /\ \A f \in InputFields(ident_call) :
               \A v \in {w \in FieldValues[f] : Differ(f, w, ident_call.data[f])} :
                   IdentifierOf([ident_call EXCEPT !.data[f] = v]) # identifier
        /\ \A k \in (SecretValues \cup {"software_pin"}) \ {SecretOf(ident_call)} :
               IdentifierOf(WithSecret(ident_call, k)) # identifier

\* C19: calculate_uuid_by_doc_type gives for the types 03, 91, 92, 05 and
\* 95 the identifier whose secret is the software_pin, which is not the one
\* whose secret is the technical key of the data, and for the types 01, 02
\* and 04 the identifier whose secret is the technical key.
C19_PinForCorrectiveKeyForSale ==
    (Called /\ ident_call.fn = "calculate_uuid_by_doc_type") =>
        LET d == ident_call.data
            with_pin == sha384(build_cufe_string(
                            [d EXCEPT !.technical_key = ident_call.software_pin]))
        IN  /\ ident_call.doc_type_code \in {"03", "91", "92", "05", "95"} =>
                   identifier = with_pin /\ identifier # calculate_cufe(d)
            /\ ident_call.doc_type_code \in {"01", "02", "04"} =>
                   identifier = calculate_cufe(d)

Parsed == xml_response # NoElement

\* The fields a parser sets, each with the local name of its element and the
\* namespaces the parser looks it up under: two, but for the error strings
\* of _parse_send_test_set_response, which are looked up under one.
ParserFields(parser) ==
    (IF parser \in {"_parse_send_test_set_response", "_parse_response"}
     THEN {[field |-> "zip_key", name |-> "ZipKey", namespaces |-> {"upload", "dian"}]}
     ELSE {})
    \cup
    (IF parser \in {"_parse_status_response", "_parse_response"}
     THEN {[field |-> "is_valid", name |-> "IsValid", namespaces |-> {"resp", "dian"}],
           [field |-> "status_code", name |-> "StatusCode", namespaces |-> {"resp", "dian"}],
           [field |-> "status_description", name |-> "StatusDescription",
            namespaces |-> {"resp", "dian"}],
           [field |-> "status_message", name |-> "StatusMessage",
            namespaces |-> {"resp", "dian"}],
           [field |-> "error_messages", name |-> "ErrorMessage",
            namespaces |-> {"resp", "dian"}]}
     ELSE {[field |-> "error_messages", name |-> "string", namespaces |-> {"dian"}]})

\* The texts of the elements of the response with the name under one of the
\* namespaces.
TextsPresent(doc, namespaces, name) ==
    UNION {Range(texts(findall_elements(doc, <<ns, name>>))) : ns \in namespaces}

\* C20: when the response holds an element of a field with a text, under
\* either of the field's namespaces, the parser has set the field.
C20_FieldFilledUnderEitherNamespace ==
    Parsed =>
        \A f \in ParserFields(parsed.parser) :
            TextsPresent(xml_response, f.namespaces, f.name) # {} =>
                parsed.response[f.field].filled

(***************************************************************************)
(* C21: for every authority error code and message, the exception that      *)
(* create_dian_exception returns has that code as its code, and its         *)
(* message holds the authority's message text unmodified.                   *)
(***************************************************************************)
ErrorCreated == error_call /= NoErrorCall

Contains(message, text) == \E i \in DOMAIN message : message[i] = text

C21_CodeAndMessageKept ==
    ErrorCreated =>
        /\ dian_exception.code = error_call.error_code
        /\ error_call.message \notin {None, ""} =>
               Contains(dian_exception.message, error_call.message)

(***************************************************************************)
(* C25: a client is bound to the production endpoint only when its          *)
(* environment names production (produccion, production or 1, in any        *)
(* case); every other value selects the habilitacion endpoint.              *)
(***************************************************************************)
ClientBuilt == client_config /= NoClient /\ client_config.raised = None

NamesProduction(environment) == lower(environment) \in {"produccion", "production", "1"}

C25_ProductionOnlyWhenNamed ==
    ClientBuilt =>
        client_endpoint = IF NamesProduction(client_config.environment)
                          THEN ENDPOINT_PRODUCCION
                          ELSE ENDPOINT_HABILITACION

(***************************************************************************)
(* C22: a canonicalisation, hash or signing failure while a document is     *)
(* being sent reaches the caller of send_and_verify as an exception: no     *)
(* call of send_and_verify returns normally with such a failure absorbed    *)
(* into its result.                                                         *)
(***************************************************************************)
SendReturned == pc = "idle" /\ caller \in ProcessFunctions

C22_SigningFailureNotAbsorbed == SendReturned => result.error \notin SigningFailures

(***************************************************************************)
(* C23: sign() does not read the clock; the signed document is determined   *)
(* by the document and the key material it was given: whatever the clock    *)
(* shows during the call, the same call returns the same tree.              *)
(***************************************************************************)
C23_SameInputsSameSignature ==
    SignReturned =>
        \E chain \in Chains, uuids \in UUIDs :
            \A now \in Clock :
                invoice = sign_invoice_xades(xml_element, "key", "cert", chain, uuids, now).invoice

(***************************************************************************)
(* C24: for the same field values the implementations of the CUFE formula   *)
(* return the same identifier: calculate_cufe and calculate_cufe_from_taxes *)
(* of the builders, calcular_cufe_flexible of the client, and calcular_cufe *)
(* of the client when IVA is the only tax.                                   *)
(***************************************************************************)
CufeFunctions ==
    {"calculate_cufe", "calculate_cufe_from_taxes", "calcular_cufe", "calcular_cufe_flexible"}

OnlyIva(d) == d.inc_amount = 0 /\ d.ica_amount = 0

C24_ImplementationsAgree ==
    (Called /\ ident_call.fn \in CufeFunctions) =>
        \A fn \in CufeFunctions :
            (fn = "calcular_cufe" => OnlyIva(ident_call.data)) =>
                identifier = Identifier(fn, ident_call.data, "", None)

(***************************************************************************)
(* C26: every record of the tracker is in exactly one of the lists          *)
(* get_valid_documents, get_failed_documents and get_pending_documents,     *)
(* and get_summary's validados + rechazados + pendientes is its             *)
(* total_documentos.                                                        *)
(***************************************************************************)
Listed(docs, doc) == \E i \in 1..Len(docs) : docs[i] = doc

ListsOf(d, doc) ==
    {name \in {"valid", "failed", "pending"} :
        Listed(CASE name = "valid" -> get_valid_documents(d)
                 [] name = "failed" -> get_failed_documents(d)
                 [] name = "pending" -> get_pending_documents(d), doc)}

C26_EveryRecordInOneList ==
    LET d == data[Pipeline]
        summary == get_summary(d)
    IN  /\ \A i \in 1..Len(all_docs(d)) : Cardinality(ListsOf(d, all_docs(d)[i])) = 1
        /\ summary.validados + summary.rechazados + summary.pendientes
               = summary.total_documentos

(***************************************************************************)
(* C27: one tracker, the only writer of its file, never hands out a         *)
(* consecutive number twice: through set_config, get_next_consecutive,      *)
(* add_document, update_status, clear and re-opening, every number          *)
(* get_next_consecutive returns is greater than every number it returned    *)
(* before.                                                                  *)
(***************************************************************************)
C27_ReturnedNumbersIncrease ==
    LET numbers == returned[Pipeline]
    IN  \A i \in 1..Len(numbers) : \A j \in 1..Len(numbers) :
            i < j => numbers[i] < numbers[j]

(***************************************************************************)
(* C28: in every call of verify_pending_documents, each pending record      *)
(* that is polled gets the verdict the authority answered to the request    *)
(* made with that record's own ZipKey (it stays pending when the verdict    *)
(* is None), and that request changes no other record; records that share   *)
(* a document number included.                                              *)
(***************************************************************************)
VerdictOnOwnRecord(before, after, polled, is_valid) ==
    /\ Len(after) = Len(before)
    /\ \A i \in 1..Len(before) :
           IF i = polled /\ is_valid # "RequestException"
           THEN after[i] = update_doc(before[i], is_valid, None)
           ELSE after[i] = before[i]

C28_VerdictStoredOnItsRecord ==
    [][\A is_valid \in Answers :
          verify_pending_documents_loop(Pipeline, is_valid) =>
              VerdictOnOwnRecord(all_docs(data[Pipeline]), all_docs(data'[Pipeline]),
                                 Head(pending_docs), is_valid)]_vars

(***************************************************************************)
(* C29: _parse_status_response sets StatusCode, StatusDescription,          *)
(* StatusMessage and the error messages from the response whatever the      *)
(* IsValid element holds: they are what the parser sets for the same        *)
(* response without its IsValid element; and an IsValid element without a   *)
(* text leaves is_valid None.                                               *)
(***************************************************************************)
StatusFields == {"status_code", "status_description", "status_message", "error_messages"}

C29_StatusFieldsWhateverIsValid ==
    (Parsed /\ parsed.parser = "_parse_status_response") =>
        LET doc == xml_response
            is_valid == find_either(doc, "resp", "dian", "IsValid")
            expected == status_fields(DianResponse, doc, "resp", "dian",
                                      findall_either(doc, "resp", "dian", "ErrorMessage"))
        IN  /\ \A f \in StatusFields : parsed.response[f] = expected[f]
            /\ (is_valid # NoElement /\ is_valid.text = NoText) =>
                   ~parsed.response.is_valid.filled

(***************************************************************************)
(* C30: verify_status_with_retry ends, for every max_retries >= 0: its      *)
(* loop makes at most max_retries polls, and when every poll ended in a     *)
(* response or a transport exception the call ends by returning a status    *)
(* response or by raising the transport exception.                          *)
(***************************************************************************)
VerifyEnded == pc # "polling" /\ outcome # NoOutcome

TransportOnly == \A i \in 1..Len(log) : log[i] # "Exception"

C30_EndsWithResponseOrTransportException ==
    /\ pc = "polling" => attempt < max_retries /\ Len(Polls(log)) = attempt
    /\ (VerifyEnded /\ TransportOnly) =>
           outcome.kind = "return" \/ outcome = Raise("RequestException")

====
